---- MODULE Spec2Model ----
(***************************************************************************)
(* A model of the netlink codec and receive loop of truenas_pynetif.       *)
(*                                                                         *)
(* Byte strings are sequences of integers 0..255.  Python offsets are      *)
(* 0-based, sequence indices 1-based: byte data[k] is data[k + 1] here.    *)
(* struct's "H", "I" and "i" formats are little-endian (the native order   *)
(* of the hosts the library runs on).                                      *)
(*                                                                         *)
(* SpecAttr drives pack_nlattr / pack_nlattr_nested / parse_attrs.         *)
(***************************************************************************)
EXTENDS Integers, Sequences, FiniteSets, TLC

VARIABLES
    a_pc,        \* "build", "scan", "done" or "raised": position of the codec run
    a_data,      \* the buffer handed to parse_attrs
    a_offset,    \* parse_attrs: offset
    a_attrs,     \* parse_attrs: the dict attrs, a function key -> payload
    a_built,     \* history: the attributes encoded into a_data, in order
    a_packed,    \* history: the byte string each of them was encoded to
    a_tail,      \* history: what follows the encoded attributes in a_data
    a_declared,  \* history: key -> nla_len read from the header stored under it
    a_iters      \* history: iterations of the parse_attrs loop that stored an entry

attrVars ==
    <<a_pc, a_data, a_offset, a_attrs, a_built, a_packed, a_tail, a_declared, a_iters>>

VARIABLES
    r_pc,        \* "idle", "recv", "parse", "collect", "returned" or "raised"
    r_call,      \* the library function that is running, "none" before the call
    r_data,      \* recv_msgs: data, the bytes of the current socket read
    r_offset,    \* recv_msgs: offset
    r_done,      \* recv_msgs: done
    r_messages,  \* recv_msgs: messages, a sequence of <<type, payload>>
    r_exc,       \* the exception that left the call: [type, errno]
    r_result,    \* the value the call returned to its caller
    r_emitted,   \* history: the messages the kernel has put on the socket, in order
    r_reads,     \* history: number of sock.recv calls that returned
    r_parsed,    \* history: number of messages the inner loop has parsed
    r_src,       \* history: for each entry of r_messages, its index in r_emitted
    r_term,      \* history: the first terminating message parsed, if any
    r_sent,      \* the request the call sent on the socket
    r_family,    \* the family argument of the call
    r_i,         \* dump queries: entries of the received list already visited
    r_resSrc     \* history: for each entry of r_result, its index in r_emitted

recvVars ==
    <<r_pc, r_call, r_data, r_offset, r_done, r_messages, r_exc, r_result,
      r_emitted, r_reads, r_parsed, r_src, r_term, r_sent, r_family, r_i, r_resSrc>>

VARIABLES
    d_pc,        \* "idle" or "done": whether a decoder has been applied
    d_decoder,   \* which decoder: "link", "address", "route", "rule", "inet_diag"
    d_payload,   \* the payload handed to it
    d_out        \* what came out: [kind, rec]

decVars == <<d_pc, d_decoder, d_payload, d_out>>

VARIABLES
    b_pc,        \* add_address: "idle", "returned", "raised" or "blocked"
    b_args,      \* its arguments
    b_sent,      \* the request it sent
    b_exc        \* the exception that left it

addrCallVars == <<b_pc, b_args, b_sent, b_exc>>

VARIABLES
    h_sock,               \* each handle's _sock: "absent" (no such handle yet),
                          \* "unset" (None), "open", "closed" or "broken"
    h_names,              \* each EthtoolNetlink's <<_link_mode_names, _feature_names>>
    h_ctx,                \* each thread's _address_ctx and _ethtool_ctx (0 is None)
    g_link_mode_names,    \* the global _link_mode_names (0 is None)
    g_feature_names,      \* the global _feature_names (0 is None)
    g_lock,               \* who holds _cache_init_lock ("free" is nobody)
    g_made,               \* how many tables the process has built
    g_faults,             \* how many transport faults have happened
    g_queries,            \* how many STRSET_GET queries of each set were answered
    g_returned,           \* the pairs _ensure_global_caches has returned
    t_pc,                 \* where each thread is
    t_call,               \* which entry point it came in by
    t_tables,             \* its local link_modes, features
    h_last                \* how the last call that ended went

handleVars ==
    <<h_sock, h_names, h_ctx, g_link_mode_names, g_feature_names, g_lock,
      g_made, g_faults, g_queries, g_returned, t_pc, t_call, t_tables,
      h_last>>

VARIABLES
    s_queue,     \* the datagrams written to the socket and not yet read
    s_calls,     \* how many library calls were made on the socket
    s_last       \* the last call: what it sent, what the kernel answered, how
                 \* it ended

sessionVars == <<s_queue, s_calls, s_last>>

VARIABLES
    n_mask,      \* the netmask handed to ipv6_netmask_to_prefixlen: its 128 bits,
                 \* most significant first (<<>> before the call)
    n_out        \* how the call ended: [kind, value]

maskVars == <<n_mask, n_out>>

VARIABLES
    q_pc,        \* AddressMixin.addresses: "idle", "try", "sleep", "returned" or
                 \* "raised"
    q_retries,   \* its local retries
    q_opened,    \* how many sockets the process has opened: socket number k is
                 \* the k-th one, closed when its with block is left
    q_slept,     \* milliseconds spent in time.sleep
    q_log,       \* history: one entry for each call of _get_addresses
    q_out        \* how the property read ended: [kind, exc, result]

retryVars == <<q_pc, q_retries, q_opened, q_slept, q_log, q_out>>

VARIABLES
    c_pc,        \* configure_bridge / configure_bond: where the call is
    c_op,        \* "configure_bridge", "configure_bond" or "none"
    c_config,    \* its argument config
    c_kernel,    \* the kernel's interfaces: name -> [index, master, kind, ...]
    c_links,     \* its local links: name -> LinkInfo
    c_link,      \* its local link
    c_current,   \* its local current_members
    c_rem,       \* members the removal loop has still to visit
    c_add,       \* members the add loop has still to visit
    c_up,        \* members the last loop has still to visit
    c_sent,      \* history: the requests sent on the socket, in order
    c_out        \* how the call ended: [kind, exc]

confVars ==
    <<c_pc, c_op, c_config, c_kernel, c_links, c_link, c_current, c_rem, c_add,
      c_up, c_sent, c_out>>

VARIABLES
    o_kind,      \* the class of the handle: "none" (not made yet), "address" or
                 \* "ethtool"
    o_sock,      \* the handle's _sock: 0 is None, k the k-th socket it made
    o_family,    \* the handle's _family_id (0 is None)
    o_open,      \* the sockets the handle made that are open
    o_made,      \* how many sockets the handle has made
    o_lost,      \* history: the sockets _connect replaced in _sock
    o_last       \* the last call on the handle, and what it found

ownerVars == <<o_kind, o_sock, o_family, o_open, o_made, o_lost, o_last>>

VARIABLES
    k_pc,        \* where get_link_addresses / get_link_routes stands
    k_fn,        \* which of the functions is running
    k_opt,       \* the socket's GET_STRICT_CHK option
    k_ops,       \* what the call has done to the socket, in order
    k_queue,     \* what is queued on the socket, unread
    k_out        \* how the last call ended

strictVars == <<k_pc, k_fn, k_opt, k_ops, k_queue, k_out>>

VARIABLES
    b_in,        \* the bitset handed to _parse_bitset, as it was built
    b_data,      \* its bytes
    b_out        \* what _parse_bitset made of the bytes

bitsetVars == <<b_in, b_data, b_out>>

VARIABLES
    p_list,      \* the PROP_LIST of the record, as it was built
    p_payload,   \* the bytes of the record
    p_out        \* what _parse_link_payload made of them

propVars == <<p_list, p_payload, p_out>>

VARIABLES
    w_reads,     \* the datagrams the socket hands out, in order
    w_out        \* what each of the three receive loops made of them

loopVars == <<w_reads, w_out>>

VARIABLES
    y_pc,        \* where the call stands: "idle", "sent", "returned", "raised"
    y_fn,        \* the function that sent the request
    y_flags,     \* the nlmsg_flags of the request
    y_kernel,    \* the kernel: "idle", "answering" or "finished"
    y_records,   \* how many records the kernel has answered with
    y_queue,     \* the datagrams queued on the socket, unread
    y_messages,  \* the records the receive loop has collected
    y_out        \* how the call ended

requestVars == <<y_pc, y_fn, y_flags, y_kernel, y_records, y_queue, y_messages, y_out>>

vars == <<attrVars, recvVars, decVars, addrCallVars, handleVars, sessionVars,
    maskVars, retryVars, confVars, ownerVars, strictVars, bitsetVars,
    propVars, loopVars, requestVars>>

\* what the actions of each part leave alone
AttrFrame ==
    UNCHANGED <<recvVars, decVars, addrCallVars, handleVars, sessionVars,
    maskVars, retryVars, confVars, ownerVars, strictVars, bitsetVars,
    propVars, loopVars, requestVars>>

RecvFrame ==
    UNCHANGED <<attrVars, decVars, addrCallVars, handleVars, sessionVars,
    maskVars, retryVars, confVars, ownerVars, strictVars, bitsetVars,
    propVars, loopVars, requestVars>>

DecFrame ==
    UNCHANGED <<attrVars, recvVars, addrCallVars, handleVars, sessionVars,
    maskVars, retryVars, confVars, ownerVars, strictVars, bitsetVars,
    propVars, loopVars, requestVars>>

AddrCallFrame ==
    UNCHANGED <<attrVars, recvVars, decVars, handleVars, sessionVars,
    maskVars, retryVars, confVars, ownerVars, strictVars, bitsetVars,
    propVars, loopVars, requestVars>>

HandleFrame ==
    UNCHANGED <<attrVars, recvVars, decVars, addrCallVars, sessionVars,
    maskVars, retryVars, confVars, ownerVars, strictVars, bitsetVars,
    propVars, loopVars, requestVars>>

SessionFrame ==
    UNCHANGED <<attrVars, recvVars, decVars, addrCallVars, handleVars,
    maskVars, retryVars, confVars, ownerVars, strictVars, bitsetVars,
    propVars, loopVars, requestVars>>

MaskFrame ==
    UNCHANGED <<attrVars, recvVars, decVars, addrCallVars, handleVars,
    sessionVars, retryVars, confVars, ownerVars, strictVars, bitsetVars,
    propVars, loopVars, requestVars>>

RetryFrame ==
    UNCHANGED <<attrVars, recvVars, decVars, addrCallVars, handleVars,
    sessionVars, maskVars, confVars, ownerVars, strictVars, bitsetVars,
    propVars, loopVars, requestVars>>

ConfFrame ==
    UNCHANGED <<attrVars, recvVars, decVars, addrCallVars, handleVars,
    sessionVars, maskVars, retryVars, ownerVars, strictVars, bitsetVars,
    propVars, loopVars, requestVars>>

OwnerFrame ==
    UNCHANGED <<attrVars, recvVars, decVars, addrCallVars, handleVars,
    sessionVars, maskVars, retryVars, confVars, strictVars, bitsetVars,
    propVars, loopVars, requestVars>>

StrictFrame ==
    UNCHANGED <<attrVars, recvVars, decVars, addrCallVars, handleVars,
    sessionVars, maskVars, retryVars, confVars, ownerVars, bitsetVars,
    propVars, loopVars, requestVars>>

BitsetFrame ==
    UNCHANGED <<attrVars, recvVars, decVars, addrCallVars, handleVars,
    sessionVars, maskVars, retryVars, confVars, ownerVars, strictVars,
    propVars, loopVars, requestVars>>

PropFrame ==
    UNCHANGED <<attrVars, recvVars, decVars, addrCallVars, handleVars,
    sessionVars, maskVars, retryVars, confVars, ownerVars, strictVars,
    bitsetVars, loopVars, requestVars>>

LoopFrame ==
    UNCHANGED <<attrVars, recvVars, decVars, addrCallVars, handleVars,
    sessionVars, maskVars, retryVars, confVars, ownerVars, strictVars,
    bitsetVars, propVars, requestVars>>

RequestFrame ==
    UNCHANGED <<attrVars, recvVars, decVars, addrCallVars, handleVars,
    sessionVars, maskVars, retryVars, confVars, ownerVars, strictVars,
    bitsetVars, propVars, loopVars>>

----------------------------------------------------------------------------
(* Bounds of the model *)

MaxAttrs == 2
MaxPayloadLen == 5
MaxMsgs == 4
MaxBatch == 3

----------------------------------------------------------------------------
(* Integer and byte helpers *)

Min(a, b) == IF a <= b THEN a ELSE b

RECURSIVE BitAnd(_, _)
BitAnd(a, b) ==
    IF a = 0 \/ b = 0 THEN 0
    ELSE (a % 2) * (b % 2) + 2 * BitAnd(a \div 2, b \div 2)

RECURSIVE BitOr(_, _)
BitOr(a, b) ==
    IF a = 0 THEN b
    ELSE IF b = 0 THEN a
    ELSE (IF a % 2 = 1 \/ b % 2 = 1 THEN 1 ELSE 0) + 2 * BitOr(a \div 2, b \div 2)

\* (n + 3) & ~3 for n >= 0: clear the two low bits of n + 3
Align4(n) == (n + 3) - BitAnd(n + 3, 3)

\* Python slice data[i:j] for 0 <= i, 0 <= j: both ends clamp to len(data)
Slice(data, i, j) == SubSeq(data, Min(i, Len(data)) + 1, Min(j, Len(data)))

Zeros(n) == [i \in 1..n |-> 0]

\* struct.pack("H", n): two bytes, least significant first
PackU16(n) == <<n % 256, (n \div 256) % 256>>

\* struct.unpack_from("H", data, off)
UnpackU16(data, off) == data[off + 1] + 256 * data[off + 2]

\* struct.pack("I", n): four bytes, least significant first (n < 2^31 here:
\* the model checker's integers have 32 bits)
PackU32(n) ==
    <<n % 256, (n \div 256) % 256, (n \div 65536) % 256, (n \div 16777216) % 256>>

\* struct.unpack_from("I", data, off), for values below 2^31
UnpackU32(data, off) ==
    data[off + 1] + 256 * data[off + 2] + 65536 * data[off + 3]
        + 16777216 * data[off + 4]

\* struct.pack("i", n): two's complement on 32 bits; for n < 0 the low 31 bits
\* are those of n + 2^31 and the sign bit is set
PackI32(n) ==
    IF n >= 0 THEN PackU32(n)
    ELSE LET m == (n + 2147483647) + 1 IN
         <<m % 256, (m \div 256) % 256, (m \div 65536) % 256,
           (m \div 16777216) + 128>>

\* struct.unpack_from("i", data, off): the top byte carries the sign
UnpackI32(data, off) ==
    data[off + 1] + 256 * data[off + 2] + 65536 * data[off + 3]
        + 16777216 * (IF data[off + 4] >= 128 THEN data[off + 4] - 256
                      ELSE data[off + 4])

\* an empty dict
EmptyDict == [k \in {} |-> 0]

----------------------------------------------------------------------------
(* netlink/_core.py: the attribute codec *)

NESTED == 32768

NlaTypeMask == 32767

\* pack_nlattr: nla_len = 4 + len(data); padded_len = (nla_len + 3) & ~3
PackNlattrLen(data) == 4 + Len(data)

\* a padding computed as 4 - (nla_len % 4): four bytes too many on aligned lengths
PackNlattrPadding_Always(data) == 4 - (PackNlattrLen(data) % 4)

PackNlattrPadding(data) == Align4(PackNlattrLen(data)) - PackNlattrLen(data)

pack_nlattr(attr_type, data) ==
    PackU16(PackNlattrLen(data)) \o PackU16(attr_type) \o data
        \o Zeros(PackNlattrPadding(data))

pack_nlattr_nested(attr_type, attrs) ==
    pack_nlattr(BitOr(attr_type, NESTED), attrs)

\* a loop that goes on while any byte remains
ParseAttrsLoopCond_AnyByte(data, offset) == offset < Len(data)

\* parse_attrs: the loop condition  offset + 4 <= len(data)
ParseAttrsLoopCond(data, offset) == offset + 4 <= Len(data)

\* struct.unpack_from("HH", data, offset); raises struct.error when fewer than
\* 4 bytes remain at offset
UnpackHH(data, offset) ==
    IF offset + 4 > Len(data)
    THEN [ok |-> FALSE, nla_len |-> 0, nla_type |-> 0]
    ELSE [ok |-> TRUE,
          nla_len |-> UnpackU16(data, offset),
          nla_type |-> UnpackU16(data, offset + 2)]

\* parse_attrs: nla_len < 4 -> break
ParseAttrsStop(nla_len) == nla_len < 4

\* a key that keeps the nested bit
NlaTypeBase_Raw(nla_type) == nla_type

\* nla_type & 0x7FFF
NlaTypeBase(nla_type) == BitAnd(nla_type, NlaTypeMask)

\* a payload slice that runs to the padded end of the attribute
AttrData_Padded(data, offset, nla_len) ==
    Slice(data, offset + 4, offset + Align4(nla_len))

\* data[offset + 4 : offset + nla_len]
AttrData(data, offset, nla_len) == Slice(data, offset + 4, offset + nla_len)

\* offset += (nla_len + 3) & ~3
ParseAttrsAdvance(offset, nla_len) == offset + Align4(nla_len)

\* attrs[key] = value
DictSet(d, key, value) ==
    [k \in (DOMAIN d) \cup {key} |-> IF k = key THEN value ELSE d[k]]

\* parse_attrs as a function: the dict it returns for (data, offset), or the
\* string "raised" when unpack_from fails
RECURSIVE ParseAttrsFrom(_, _, _)
ParseAttrsFrom(data, offset, attrs) ==
    IF ~ParseAttrsLoopCond(data, offset) THEN attrs
    ELSE LET h == UnpackHH(data, offset) IN
         IF ~h.ok THEN "raised"
         ELSE IF ParseAttrsStop(h.nla_len) THEN attrs
         ELSE ParseAttrsFrom(data,
                             ParseAttrsAdvance(offset, h.nla_len),
                             DictSet(attrs, NlaTypeBase(h.nla_type),
                                     AttrData(data, offset, h.nla_len)))

parse_attrs(data, offset) == ParseAttrsFrom(data, offset, EmptyDict)

----------------------------------------------------------------------------
(* Inputs of the codec run *)

AttrTypes == {0, 1, 32767}

Ramp(n) == [i \in 1..n |-> 160 + i]

AttrPayloads == {Ramp(n) : n \in 0..MaxPayloadLen} \cup {<<0>>}

\* types and payload of a nested attribute: an encoded attribute list
NestedTypes == {1, 32767}

NestedPayloads == {pack_nlattr(2, <<9>>)}

\* What may follow the encoded attributes in the buffer:
\*   "none"   nothing;
\*   "cut"    1 to 3 bytes, an attribute header cut short;
\*   "short"  a header whose declared length is below 4, then one more
\*            well-formed attribute;
\*   "over"   a header whose declared length exceeds the bytes that remain.
Tails ==
    {[kind |-> "none", bytes |-> <<>>]}
    \cup {[kind |-> "cut", bytes |-> SubSeq(<<8, 0, 5>>, 1, n)] : n \in 1..3}
    \cup {[kind |-> "short", bytes |-> <<n, 0, 5, 0>> \o pack_nlattr(6, <<7>>)]
            : n \in {0, 3}}
    \cup {[kind |-> "over", bytes |-> <<8, 0, 5, 0, 170>>],
          [kind |-> "over", bytes |-> <<12, 0, 5, 0, 170, 187, 204, 221, 238>>]}

----------------------------------------------------------------------------
(* The state before any call: both specifications start here *)

NoErrno == -1

NoExc == [type |-> "none", errno |-> NoErrno]

NoTerm == [seen |-> FALSE, index |-> 0, acc |-> <<>>]

RecvIdle ==
    /\ r_pc = "idle"
    /\ r_call = "none"
    /\ r_data = <<>>
    /\ r_offset = 0
    /\ r_done = FALSE
    /\ r_messages = <<>>
    /\ r_exc = NoExc
    /\ r_result = <<>>
    /\ r_emitted = <<>>
    /\ r_reads = 0
    /\ r_parsed = 0
    /\ r_src = <<>>
    /\ r_term = NoTerm
    /\ r_sent = <<>>
    /\ r_family = 0
    /\ r_i = 0
    /\ r_resSrc = <<>>

----------------------------------------------------------------------------
(* SpecAttr: build a buffer with the encoders, then run parse_attrs on it *)

AttrIdle ==
    /\ a_pc = "build"
    /\ a_data = <<>>
    /\ a_offset = 0
    /\ a_attrs = EmptyDict
    /\ a_built = <<>>
    /\ a_packed = <<>>
    /\ a_tail = [kind |-> "none", bytes |-> <<>>]
    /\ a_declared = EmptyDict
    /\ a_iters = 0

\* before any decoder is applied; Skip is defined with the decoders
DecIdle ==
    /\ d_pc = "idle"
    /\ d_decoder = "none"
    /\ d_payload = <<>>
    /\ d_out = [kind |-> "skip", rec |-> <<>>]

\* before add_address is called
AddrCallIdle ==
    /\ b_pc = "idle"
    /\ b_args = <<>>
    /\ b_sent = <<>>
    /\ b_exc = NoExc

NumHandles == 3

MaxFaults == 1

Threads == {"t1", "t2"}

Handles == 1..NumHandles

NoReturn == [op |-> "none", kind |-> "none", thread |-> "none", handle |-> 0]

\* a process that has not yet asked for a handle: no context holds one, the
\* global tables are None, the lock is free
HandleIdle ==
    /\ h_sock = [h \in Handles |-> "absent"]
    /\ h_names = [h \in Handles |-> <<0, 0>>]
    /\ h_ctx = [t \in Threads |-> [address |-> 0, ethtool |-> 0]]
    /\ g_link_mode_names = 0
    /\ g_feature_names = 0
    /\ g_lock = "free"
    /\ g_made = 0
    /\ g_faults = 0
    /\ g_queries = [link_modes |-> 0, features |-> 0]
    /\ g_returned = {}
    /\ t_pc = [t \in Threads |-> "idle"]
    /\ t_call = [t \in Threads |-> "none"]
    /\ t_tables = [t \in Threads |-> <<0, 0>>]
    /\ h_last = NoReturn

NoCall ==
    [op |-> "none", kind |-> "none", exc |-> NoExc, result |-> <<>>,
     answer |-> <<>>, unread |-> 0, sent |-> <<>>, log |-> <<>>]

\* when the socket is opened: nothing to read, no call made
SessionIdle ==
    /\ s_queue = <<>>
    /\ s_calls = 0
    /\ s_last = NoCall

NoResult == [kind |-> "none", value |-> 0]

MaskIdle ==
    /\ n_mask = <<>>
    /\ n_out = NoResult

NoOutcome == [kind |-> "none", exc |-> NoExc, result |-> <<>>]

RetryIdle ==
    /\ q_pc = "idle"
    /\ q_retries = 0
    /\ q_opened = 0
    /\ q_slept = 0
    /\ q_log = <<>>
    /\ q_out = NoOutcome

NoLink == [index |-> 0]

ConfIdle ==
    /\ c_pc = "idle"
    /\ c_op = "none"
    /\ c_config = <<>>
    /\ c_kernel = <<>>
    /\ c_links = <<>>
    /\ c_link = NoLink
    /\ c_current = {}
    /\ c_rem = {}
    /\ c_add = {}
    /\ c_up = <<>>
    /\ c_sent = <<>>
    /\ c_out = [kind |-> "none", exc |-> NoExc]

NoOwnerCall == [op |-> "none", kind |-> "none", sock |-> 0, open |-> {}]

OwnerIdle ==
    /\ o_kind = "none"
    /\ o_sock = 0
    /\ o_family = 0
    /\ o_open = {}
    /\ o_made = 0
    /\ o_lost = {}
    /\ o_last = NoOwnerCall

StrictIdle ==
    /\ k_pc = "idle"
    /\ k_fn = "none"
    /\ k_opt = 0
    /\ k_ops = <<>>
    /\ k_queue = <<>>
    /\ k_out = NoOutcome

NoBitset ==
    [size |-> [some |-> FALSE, val |-> 0], value |-> [some |-> FALSE, val |-> <<>>],
     mask |-> [some |-> FALSE, val |-> <<>>], bits |-> [some |-> FALSE, val |-> <<>>]]

NoBits == [kind |-> "none", size |-> 0, value_bits |-> {}, mask_bits |-> {}]

BitsetIdle ==
    /\ b_in = NoBitset
    /\ b_data = <<>>
    /\ b_out = NoBits

NoProps == [some |-> FALSE, val |-> <<>>]

PropIdle ==
    /\ p_list = NoProps
    /\ p_payload = <<>>
    /\ p_out = NoResult

NoLoops == [kind |-> "none"]

LoopIdle ==
    /\ w_reads = <<>>
    /\ w_out = NoLoops

RequestIdle ==
    /\ y_pc = "idle"
    /\ y_fn = "none"
    /\ y_flags = 0
    /\ y_kernel = "idle"
    /\ y_records = 0
    /\ y_queue = <<>>
    /\ y_messages = <<>>
    /\ y_out = NoExc

Init ==
    AttrIdle /\ RecvIdle /\ DecIdle /\ AddrCallIdle /\ HandleIdle /\ SessionIdle
    /\ MaskIdle /\ RetryIdle /\ ConfIdle /\ OwnerIdle /\ StrictIdle
    /\ BitsetIdle /\ PropIdle /\ LoopIdle /\ RequestIdle

\* attrs += pack_nlattr(attr_type, data)
PackNlattr ==
    /\ a_pc = "build"
    /\ Len(a_built) < MaxAttrs
    /\ \E t \in AttrTypes, p \in AttrPayloads :
         /\ a_data' = a_data \o pack_nlattr(t, p)
         /\ a_built' = Append(a_built, [type |-> t, nested |-> FALSE, data |-> p])
         /\ a_packed' = Append(a_packed, pack_nlattr(t, p))
    /\ UNCHANGED <<a_pc, a_offset, a_attrs, a_tail, a_declared, a_iters>>
    /\ AttrFrame

\* attrs += pack_nlattr_nested(attr_type, inner)
PackNlattrNested ==
    /\ a_pc = "build"
    /\ Len(a_built) < MaxAttrs
    /\ \E t \in NestedTypes, p \in NestedPayloads :
         /\ a_data' = a_data \o pack_nlattr_nested(t, p)
         /\ a_built' = Append(a_built, [type |-> t, nested |-> TRUE, data |-> p])
         /\ a_packed' = Append(a_packed, pack_nlattr_nested(t, p))
    /\ UNCHANGED <<a_pc, a_offset, a_attrs, a_tail, a_declared, a_iters>>
    /\ AttrFrame

\* parse_attrs(data) is called on the buffer, which may end in a tail the
\* encoders did not write: attrs = {}, offset = 0
ParseAttrsCall ==
    /\ a_pc = "build"
    /\ \E tl \in Tails :
         /\ a_tail' = tl
         /\ a_data' = a_data \o tl.bytes
    /\ a_pc' = "scan"
    /\ a_offset' = 0
    /\ a_attrs' = EmptyDict
    /\ a_declared' = EmptyDict
    /\ a_iters' = 0
    /\ UNCHANGED <<a_built, a_packed>>
    /\ AttrFrame

\* one evaluation of the while condition and, when it holds, one iteration
ParseAttrsStep ==
    /\ a_pc = "scan"
    /\ IF ~ParseAttrsLoopCond(a_data, a_offset)
       THEN /\ a_pc' = "done"
            /\ UNCHANGED <<a_offset, a_attrs, a_declared, a_iters>>
       ELSE LET h == UnpackHH(a_data, a_offset) IN
            IF ~h.ok
            THEN /\ a_pc' = "raised"
                 /\ UNCHANGED <<a_offset, a_attrs, a_declared, a_iters>>
            ELSE IF ParseAttrsStop(h.nla_len)
            THEN /\ a_pc' = "done"
                 /\ UNCHANGED <<a_offset, a_attrs, a_declared, a_iters>>
            ELSE /\ a_attrs' = DictSet(a_attrs, NlaTypeBase(h.nla_type),
                                       AttrData(a_data, a_offset, h.nla_len))
                 /\ a_declared' = DictSet(a_declared, NlaTypeBase(h.nla_type),
                                          h.nla_len)
                 /\ a_offset' = ParseAttrsAdvance(a_offset, h.nla_len)
                 /\ a_iters' = a_iters + 1
                 /\ a_pc' = "scan"
    /\ UNCHANGED <<a_data, a_built, a_packed, a_tail>>
    /\ AttrFrame

NextAttr == PackNlattr \/ PackNlattrNested \/ ParseAttrsCall \/ ParseAttrsStep

SpecAttr == Init /\ [][NextAttr]_vars

----------------------------------------------------------------------------
(* netlink/_core.py: message framing and the receive loop recv_msgs *)

NLMsgType_NOOP == 1
NLMsgType_ERROR == 2
NLMsgType_DONE == 3

MULTI == 2
DUMP_INTR == 16

ENODEV == 19
EOPNOTSUPP == 95

\* pack_nlmsg: struct.pack("IHHII", 16 + len(payload), msg_type, flags, seq, 0)
\* followed by the payload
pack_nlmsg(msg_type, flags, payload, seq) ==
    PackU32(16 + Len(payload)) \o PackU16(msg_type) \o PackU16(flags)
        \o PackU32(seq) \o PackU32(0) \o payload

\* struct.unpack_from("IHHII", data, offset)
UnpackNlmsghdr(data, offset) ==
    [nlmsg_len |-> UnpackU32(data, offset),
     nlmsg_type |-> UnpackU16(data, offset + 4),
     nlmsg_flags |-> UnpackU16(data, offset + 6),
     nlmsg_seq |-> UnpackU32(data, offset + 8),
     nlmsg_pid |-> UnpackU32(data, offset + 12)]

\* a test for equality with the flag instead of a test of the bit
DumpIntrSet_Equal(nlmsg_flags) == nlmsg_flags = DUMP_INTR

\* nlmsg_flags & NLMsgFlags.DUMP_INTR
DumpIntrSet(nlmsg_flags) == BitAnd(nlmsg_flags, DUMP_INTR) # 0

\* an error code used as read from the wire, without the negation
ErrnoOf_Raw(error) == error

\* error = -error
ErrnoOf(error) == -error

\* a payload slice that runs to the end of the read
MsgPayload_ToEnd(data, offset, nlmsg_len) == Slice(data, offset + 16, Len(data))

\* data[offset + 16 : offset + nlmsg_len]
MsgPayload(data, offset, nlmsg_len) == Slice(data, offset + 16, offset + nlmsg_len)

\* offset += (nlmsg_len + 3) & ~3
NextOffset(offset, nlmsg_len) == offset + Align4(nlmsg_len)

\* the exceptions of _exceptions.py: NetlinkError.__init__ stores error_code
\* (default None) in errno; the subclasses raised here pass a message only
Exc(type, error_code) == [type |-> type, errno |-> error_code]

Outcome(kind, exc, msg, next) == [kind |-> kind, exc |-> exc, msg |-> msg, next |-> next]

NoMsg == <<0, <<>>>>

\* the branch  if nlmsg_type == NLMsgType.ERROR
ErrorOutcome(data, offset, next) ==
    IF offset + 20 <= Len(data)
    THEN LET error == UnpackI32(data, offset + 16) IN
         IF error < 0
         THEN IF ErrnoOf(error) = ENODEV
              THEN Outcome("raise", Exc("DeviceNotFound", NoErrno), NoMsg, next)
              ELSE IF ErrnoOf(error) = EOPNOTSUPP
              THEN Outcome("raise", Exc("OperationNotSupported", NoErrno), NoMsg, next)
              ELSE Outcome("raise", Exc("NetlinkError", ErrnoOf(error)), NoMsg, next)
         ELSE Outcome("done", NoExc, NoMsg, next)
    ELSE Outcome("done", NoExc, NoMsg, next)

\* one evaluation of the inner while condition of recv_msgs and, when it holds,
\* one iteration: "break" stands for every way of leaving the inner loop
RecvStep(data, offset) ==
    IF ~(offset < Len(data)) \/ offset + 16 > Len(data)
    THEN Outcome("break", NoExc, NoMsg, offset)
    ELSE LET h == UnpackNlmsghdr(data, offset)
             next == NextOffset(offset, h.nlmsg_len)
         IN  IF h.nlmsg_len < 16
             THEN Outcome("break", NoExc, NoMsg, offset)
             ELSE IF DumpIntrSet(h.nlmsg_flags)
             THEN Outcome("raise", Exc("DumpInterrupted", NoErrno), NoMsg, next)
             ELSE IF h.nlmsg_type = NLMsgType_ERROR
             THEN ErrorOutcome(data, offset, next)
             ELSE IF h.nlmsg_type = NLMsgType_DONE
             THEN Outcome("done", NoExc, NoMsg, next)
             ELSE Outcome("data", NoExc,
                          <<h.nlmsg_type, MsgPayload(data, offset, h.nlmsg_len)>>,
                          next)

----------------------------------------------------------------------------
(* Optional values: Python's None against a value of the field's type *)

Some(v) == [some |-> TRUE, val |-> v]

NoneInt == [some |-> FALSE, val |-> 0]

NoneStr == [some |-> FALSE, val |-> <<>>]

\* a u32 that may reach 2^32 - 1, kept as its two 16-bit halves
U32Halves(data, off) == [lo |-> UnpackU16(data, off), hi |-> UnpackU16(data, off + 2)]

NoneU32 == [some |-> FALSE, val |-> [lo |-> 0, hi |-> 0]]

\* bytes.rstrip(b"\x00")
RECURSIVE RStripNul(_)
RStripNul(b) ==
    IF b = <<>> \/ b[Len(b)] # 0 THEN b ELSE RStripNul(SubSeq(b, 1, Len(b) - 1))

\* bytes.decode("utf-8", errors="replace") on bytes that hold no multi-byte
\* sequence: a byte above 127 becomes U+FFFD
DecodeReplace(b) == [i \in 1..Len(b) |-> IF b[i] < 128 THEN b[i] ELSE 65533]

\* bytes.decode(): raises UnicodeDecodeError on such a byte
DecodeStrictOk(b) == \A i \in 1..Len(b) : b[i] < 128

----------------------------------------------------------------------------
(* netlink/_core.py: format_address and resolve_ifname *)

AF_UNSPEC == 0
AF_INET == 2
AF_INET6 == 10

\* format_address: the text inet_ntop prints is determined by, and determines,
\* the address bytes; the string is modelled by those bytes
format_address(family, data) ==
    IF family = AF_INET /\ Len(data) >= 4 THEN Some(Slice(data, 0, 4))
    ELSE IF family = AF_INET6 /\ Len(data) >= 16 THEN Some(Slice(data, 0, 16))
    ELSE NoneStr

\* the interfaces of the host: socket.if_indextoname(index)
Interfaces == (1 :> "lo") @@ (2 :> "eth0")

NoneName == [some |-> FALSE, val |-> ""]

\* resolve_ifname: the name of the index, None when if_indextoname raises
\* OSError; the cache only remembers the answer
resolve_ifname(index) ==
    IF index \in DOMAIN Interfaces THEN Some(Interfaces[index]) ELSE NoneName

----------------------------------------------------------------------------
(* The decoders of the dump queries.  Each returns [kind, rec]: kind is     *)
(* "record" (a record is built), "skip" (None is returned, or the loop      *)
(* continues) or "raise" (an exception leaves the decoder).                 *)

RTMType_NEWLINK == 16
RTMType_NEWADDR == 20
RTMType_GETADDR == 22
RTMType_NEWROUTE == 24
RTMType_GETROUTE == 26
RTMType_NEWRULE == 32
RTMType_GETRULE == 34
SOCK_DIAG_BY_FAMILY == 20

IFA_ADDRESS == 1
IFA_LOCAL == 2
IFA_LABEL == 3
IFA_BROADCAST == 4
IFA_CACHEINFO == 6
IFA_PROTO == 11

RTA_DST == 1
RTA_OIF == 4
RTA_GATEWAY == 5
RTA_PRIORITY == 6
RTA_PREFSRC == 7
RTA_TABLE == 15

FRA_DST == 1
FRA_SRC == 2
FRA_IIFNAME == 3
FRA_PRIORITY == 6
FRA_FWMARK == 10
FRA_TABLE == 15
FRA_PROTOCOL == 21

RTM_F_CLONED == 512

Skip == [kind |-> "skip", rec |-> <<>>]

Raise(what) == [kind |-> "raise", rec |-> what]

Record(rec) == [kind |-> "record", rec |-> rec]

Has(attrs, key) == key \in DOMAIN attrs

\* the u32 of an attribute when it is present with at least 4 bytes
OptU32(attrs, key) ==
    IF Has(attrs, key) /\ Len(attrs[key]) >= 4
    THEN Some(UnpackU32(attrs[key], 0)) ELSE NoneInt

OptAddress(family, attrs, key) ==
    IF Has(attrs, key) THEN format_address(family, attrs[key]) ELSE NoneStr

\* a test of the low half of the word only
IsForever_LowHalf(u) == u.lo = 65535

\* ifa_prefered == 0xFFFFFFFF, ifa_valid == 0xFFFFFFFF
IsForever(u) == u.lo = 65535 /\ u.hi = 65535

\* None if the lifetime is 0xFFFFFFFF, else the lifetime
Lifetime(u) == IF IsForever(u) THEN NoneU32 ELSE Some(u)

\* get_ipaddresses.py: _parse_address_payload(payload, ifname_cache)
ParseAddressPayload(payload) ==
    IF Len(payload) < 8 THEN Skip
    ELSE
    LET ifa_family == payload[1]
        ifa_prefixlen == payload[2]
        ifa_flags == payload[3]
        ifa_scope == payload[4]
        ifa_index == UnpackU32(payload, 4)
        attrs == parse_attrs(payload, 8)
        address == IF Has(attrs, IFA_ADDRESS)
                   THEN format_address(ifa_family, attrs[IFA_ADDRESS])
                   ELSE OptAddress(ifa_family, attrs, IFA_LOCAL)
        cacheinfo == Has(attrs, IFA_CACHEINFO) /\ Len(attrs[IFA_CACHEINFO]) >= 8
        ifa_prefered == U32Halves(attrs[IFA_CACHEINFO], 0)
        ifa_valid == U32Halves(attrs[IFA_CACHEINFO], 4)
    IN  IF ~address.some THEN Skip
        ELSE IF Has(attrs, IFA_PROTO) /\ Len(attrs[IFA_PROTO]) = 0
        THEN Raise("IndexError")
        ELSE Record(
            [family |-> ifa_family,
             prefixlen |-> ifa_prefixlen,
             address |-> address.val,
             broadcast |-> OptAddress(ifa_family, attrs, IFA_BROADCAST),
             flags |-> ifa_flags,
             scope |-> ifa_scope,
             index |-> ifa_index,
             ifname |-> resolve_ifname(ifa_index),
             local |-> OptAddress(ifa_family, attrs, IFA_LOCAL),
             label |-> IF Has(attrs, IFA_LABEL)
                       THEN Some(DecodeReplace(RStripNul(attrs[IFA_LABEL])))
                       ELSE NoneStr,
             proto |-> IF Has(attrs, IFA_PROTO) THEN Some(attrs[IFA_PROTO][1])
                       ELSE NoneInt,
             valid_lft |-> IF cacheinfo THEN Lifetime(ifa_valid) ELSE NoneU32,
             preferred_lft |-> IF cacheinfo THEN Lifetime(ifa_prefered)
                               ELSE NoneU32])

\* get_routes.py: _parse_route_payload(payload, ifname_cache)
ParseRoutePayload(payload) ==
    IF Len(payload) < 12 THEN Skip
    ELSE
    LET rtm_family == payload[1]
        rtm_dst_len == payload[2]
        rtm_table == payload[5]
        rtm_protocol == payload[6]
        rtm_scope == payload[7]
        rtm_type == payload[8]
        rtm_flags == UnpackU32(payload, 8)
        attrs == parse_attrs(payload, 12)
        oif == OptU32(attrs, RTA_OIF)
        table == OptU32(attrs, RTA_TABLE)
    IN  IF BitAnd(rtm_flags, RTM_F_CLONED) # 0 THEN Skip
        ELSE Record(
            [family |-> rtm_family,
             dst_len |-> rtm_dst_len,
             table |-> IF table.some THEN table.val ELSE rtm_table,
             protocol |-> rtm_protocol,
             scope |-> rtm_scope,
             route_type |-> rtm_type,
             flags |-> rtm_flags,
             dst |-> OptAddress(rtm_family, attrs, RTA_DST),
             gateway |-> OptAddress(rtm_family, attrs, RTA_GATEWAY),
             prefsrc |-> OptAddress(rtm_family, attrs, RTA_PREFSRC),
             oif |-> oif,
             oif_name |-> IF oif.some THEN resolve_ifname(oif.val) ELSE NoneName,
             priority |-> OptU32(attrs, RTA_PRIORITY)])

\* rule.py: the body of the loop of get_rules, after the type test
ParseRulePayload(payload) ==
    IF Len(payload) < 12 THEN Skip
    ELSE
    LET rule_family == payload[1]
        rule_dst_len == payload[2]
        rule_src_len == payload[3]
        rule_table == payload[5]
        rule_action == payload[8]
        attrs == parse_attrs(payload, 12)
        table == OptU32(attrs, FRA_TABLE)
    IN  IF Has(attrs, FRA_IIFNAME) /\ ~DecodeStrictOk(RStripNul(attrs[FRA_IIFNAME]))
        THEN Raise("UnicodeDecodeError")
        ELSE Record(
            [family |-> rule_family,
             src_len |-> rule_src_len,
             dst_len |-> rule_dst_len,
             table |-> IF table.some THEN table.val ELSE rule_table,
             action |-> rule_action,
             priority |-> OptU32(attrs, FRA_PRIORITY),
             src |-> OptAddress(rule_family, attrs, FRA_SRC),
             dst |-> OptAddress(rule_family, attrs, FRA_DST),
             iifname |-> IF Has(attrs, FRA_IIFNAME)
                         THEN Some(RStripNul(attrs[FRA_IIFNAME])) ELSE NoneStr,
             fwmark |-> OptU32(attrs, FRA_FWMARK),
             protocol |-> IF Has(attrs, FRA_PROTOCOL) /\ Len(attrs[FRA_PROTOCOL]) >= 1
                          THEN Some(attrs[FRA_PROTOCOL][1]) ELSE NoneInt])

INET_DIAG_MSG_SIZE == 72

\* struct.unpack_from("!H", data, off): big-endian
UnpackU16BE(data, off) == 256 * data[off + 1] + data[off + 2]

\* inet_diag.py: _parse_inet_diag_msg(family, payload)
ParseInetDiagMsg(family, payload) ==
    IF Len(payload) < INET_DIAG_MSG_SIZE THEN Skip
    ELSE Record(
        [family |-> family,
         state |-> payload[2],
         src |-> IF family = AF_INET THEN Slice(payload, 8, 12)
                 ELSE Slice(payload, 8, 24),
         sport |-> UnpackU16BE(payload, 4),
         dst |-> IF family = AF_INET THEN Slice(payload, 24, 28)
                 ELSE Slice(payload, 24, 40),
         dport |-> UnpackU16BE(payload, 6),
         uid |-> UnpackU32(payload, 64),
         inode |-> UnpackU32(payload, 68)])

----------------------------------------------------------------------------
(* address/get_links.py: the link decoder *)

IFLA_ADDRESS == 1
IFLA_BROADCAST == 2
IFLA_IFNAME == 3
IFLA_MTU == 4
IFLA_LINK == 5
IFLA_MASTER == 10
IFLA_TXQLEN == 13
IFLA_OPERSTATE == 16
IFLA_LINKINFO == 18
IFLA_EXT_MASK == 29
IFLA_NUM_TX_QUEUES == 31
IFLA_NUM_RX_QUEUES == 32
IFLA_CARRIER == 33
IFLA_CARRIER_CHANGES == 35
IFLA_MIN_MTU == 50
IFLA_MAX_MTU == 51
IFLA_PROP_LIST == 52
IFLA_ALT_IFNAME == 53
IFLA_PERM_ADDRESS == 54
IFLA_PARENT_DEV_NAME == 56
IFLA_PARENT_DEV_BUS_NAME == 57

IFLA_INFO_KIND == 1
IFLA_INFO_DATA == 2

IFLA_VLAN_ID == 1

IFLA_BOND_MODE == 1
IFLA_BOND_MIIMON == 3
IFLA_BOND_PRIMARY == 11
IFLA_BOND_XMIT_HASH_POLICY == 14
IFLA_BOND_AD_LACP_RATE == 21

IFLA_BR_STP_STATE == 5
IFLA_BR_PRIORITY == 6

RTMType_GETLINK == 18

\* the strings "bond", "bridge" and "vlan" as code points
Str_bond == <<98, 111, 110, 100>>
Str_bridge == <<98, 114, 105, 100, 103, 101>>
Str_vlan == <<118, 108, 97, 110>>

\* attrs[key].rstrip(b"\x00").decode("utf-8", errors="replace") when the key is
\* present, None otherwise
OptString(attrs, key) ==
    IF Has(attrs, key) THEN Some(DecodeReplace(RStripNul(attrs[key]))) ELSE NoneStr

\* attrs[key].hex(":") when the key is present: the text is determined by, and
\* determines, the bytes, which stand for it
OptHex(attrs, key) == IF Has(attrs, key) THEN Some(attrs[key]) ELSE NoneStr

\* struct.unpack("I", attrs[key][:4]) raises struct.error on fewer than 4 bytes,
\* struct.unpack("H", attrs[key][:2]) on fewer than 2, attrs[key][0] raises
\* IndexError on none; "" when the read succeeds or the key is absent
NeedU32(attrs, key) ==
    IF Has(attrs, key) /\ Len(attrs[key]) < 4 THEN "struct.error" ELSE ""

NeedU16(attrs, key) ==
    IF Has(attrs, key) /\ Len(attrs[key]) < 2 THEN "struct.error" ELSE ""

NeedByte(attrs, key) ==
    IF Has(attrs, key) /\ Len(attrs[key]) = 0 THEN "IndexError" ELSE ""

\* the exception of the first read, in program order, that raises
FirstFault(f) ==
    IF \E i \in 1..Len(f) : f[i] # ""
    THEN f[CHOOSE i \in 1..Len(f) : f[i] # "" /\ \A j \in 1..(i - 1) : f[j] = ""]
    ELSE ""

\* the values those reads give when they succeed
U32Or(attrs, key, default) ==
    IF Has(attrs, key) THEN UnpackU32(attrs[key], 0) ELSE default

ByteOr(attrs, key, default) == IF Has(attrs, key) THEN attrs[key][1] ELSE default

OptU32Read(attrs, key) ==
    IF Has(attrs, key) THEN Some(UnpackU32(attrs[key], 0)) ELSE NoneInt

OptU16Read(attrs, key) ==
    IF Has(attrs, key) THEN Some(UnpackU16(attrs[key], 0)) ELSE NoneInt

OptByteRead(attrs, key) == IF Has(attrs, key) THEN Some(attrs[key][1]) ELSE NoneInt

\* alternate names read from the attribute map of the list
AltNames_FromMap(prop_data, offset) ==
    IF Has(parse_attrs(prop_data, offset), IFLA_ALT_IFNAME)
    THEN <<DecodeReplace(RStripNul(parse_attrs(prop_data, offset)[IFLA_ALT_IFNAME]))>>
    ELSE <<>>

\* the scan of IFLA_PROP_LIST for the alternate names: the entries of type
\* ALT_IFNAME, in order
RECURSIVE AltNames(_, _)
AltNames(prop_data, offset) ==
    IF ~(offset + 4 <= Len(prop_data)) THEN <<>>
    ELSE LET nla_len == UnpackU16(prop_data, offset)
             nla_type_base == BitAnd(UnpackU16(prop_data, offset + 2), 32767)
             attr_data == Slice(prop_data, offset + 4, offset + nla_len)
             rest == AltNames(prop_data, offset + Align4(nla_len))
         IN  IF nla_len < 4 THEN <<>>
             ELSE IF nla_type_base = IFLA_ALT_IFNAME
             THEN <<DecodeReplace(RStripNul(attr_data))>> \o rest
             ELSE rest

\* get_links.py: _parse_link_payload(payload); a record is <<ifname, LinkInfo>>
ParseLinkPayload(payload) ==
    IF Len(payload) < 16 THEN Skip
    ELSE
    LET ifi_index == UnpackI32(payload, 4)
        ifi_flags == UnpackU32(payload, 8)
        attrs == parse_attrs(payload, 16)
        ifname == OptString(attrs, IFLA_IFNAME)
        hasInfo == Has(attrs, IFLA_LINKINFO)
        linkinfo_attrs == IF hasInfo THEN parse_attrs(attrs[IFLA_LINKINFO], 0)
                          ELSE EmptyDict
        kind == OptString(linkinfo_attrs, IFLA_INFO_KIND)
        hasData == Has(linkinfo_attrs, IFLA_INFO_DATA)
        info_data == IF hasData THEN parse_attrs(linkinfo_attrs[IFLA_INFO_DATA], 0)
                     ELSE EmptyDict
        KindIs(s) == kind.some /\ kind.val = s
        bond == IF hasData /\ KindIs(Str_bond) THEN info_data ELSE EmptyDict
        bridge == IF hasData /\ KindIs(Str_bridge) THEN info_data ELSE EmptyDict
        vlan == IF hasData /\ KindIs(Str_vlan) THEN info_data ELSE EmptyDict
        vlanLink == IF KindIs(Str_vlan) THEN attrs ELSE EmptyDict
        fault == FirstFault(<<
            NeedU32(attrs, IFLA_MTU),
            NeedByte(attrs, IFLA_OPERSTATE),
            NeedU32(attrs, IFLA_TXQLEN),
            NeedU32(attrs, IFLA_MIN_MTU),
            NeedU32(attrs, IFLA_MAX_MTU),
            NeedByte(attrs, IFLA_CARRIER),
            NeedU32(attrs, IFLA_CARRIER_CHANGES),
            NeedU32(attrs, IFLA_NUM_TX_QUEUES),
            NeedU32(attrs, IFLA_NUM_RX_QUEUES),
            NeedU32(attrs, IFLA_MASTER),
            NeedByte(bond, IFLA_BOND_MODE),
            NeedU32(bond, IFLA_BOND_MIIMON),
            NeedByte(bond, IFLA_BOND_XMIT_HASH_POLICY),
            NeedByte(bond, IFLA_BOND_AD_LACP_RATE),
            NeedU32(bond, IFLA_BOND_PRIMARY),
            NeedU32(bridge, IFLA_BR_STP_STATE),
            NeedU16(bridge, IFLA_BR_PRIORITY),
            NeedU16(vlan, IFLA_VLAN_ID),
            NeedU32(vlanLink, IFLA_LINK)>>)
    IN  IF ~ifname.some \/ ifname.val = <<>> THEN Skip
        ELSE IF fault # "" THEN Raise(fault)
        ELSE Record(<<ifname.val,
            [index |-> ifi_index,
             flags |-> ifi_flags,
             mtu |-> U32Or(attrs, IFLA_MTU, 0),
             operstate |-> ByteOr(attrs, IFLA_OPERSTATE, 0),
             address |-> OptHex(attrs, IFLA_ADDRESS),
             perm_address |-> OptHex(attrs, IFLA_PERM_ADDRESS),
             broadcast |-> OptHex(attrs, IFLA_BROADCAST),
             txqlen |-> U32Or(attrs, IFLA_TXQLEN, 0),
             min_mtu |-> U32Or(attrs, IFLA_MIN_MTU, 0),
             max_mtu |-> U32Or(attrs, IFLA_MAX_MTU, 0),
             carrier |-> ByteOr(attrs, IFLA_CARRIER, 0) # 0,
             carrier_changes |-> U32Or(attrs, IFLA_CARRIER_CHANGES, 0),
             num_tx_queues |-> U32Or(attrs, IFLA_NUM_TX_QUEUES, 1),
             num_rx_queues |-> U32Or(attrs, IFLA_NUM_RX_QUEUES, 1),
             master |-> OptU32Read(attrs, IFLA_MASTER),
             parentbus |-> OptString(attrs, IFLA_PARENT_DEV_BUS_NAME),
             parentdev |-> OptString(attrs, IFLA_PARENT_DEV_NAME),
             altnames |-> IF Has(attrs, IFLA_PROP_LIST)
                          THEN AltNames(attrs[IFLA_PROP_LIST], 0) ELSE <<>>,
             kind |-> kind,
             bond_mode |-> OptByteRead(bond, IFLA_BOND_MODE),
             bond_miimon |-> OptU32Read(bond, IFLA_BOND_MIIMON),
             bond_xmit_hash_policy |-> OptByteRead(bond, IFLA_BOND_XMIT_HASH_POLICY),
             bond_lacpdu_rate |-> OptByteRead(bond, IFLA_BOND_AD_LACP_RATE),
             bond_primary |-> OptU32Read(bond, IFLA_BOND_PRIMARY),
             bridge_stp_state |-> OptU32Read(bridge, IFLA_BR_STP_STATE),
             bridge_priority |-> OptU16Read(bridge, IFLA_BR_PRIORITY),
             vlan_id |-> OptU16Read(vlan, IFLA_VLAN_ID),
             vlan_parent |-> OptU32Read(vlanLink, IFLA_LINK)]>>)

\* the message type each dump query keeps
WantedType(call) ==
    CASE call = "get_addresses" -> RTMType_NEWADDR
      [] call = "get_routes" -> RTMType_NEWROUTE
      [] call = "get_rules" -> RTMType_NEWRULE
      [] call = "get_inet_diag" -> SOCK_DIAG_BY_FAMILY
      [] call = "get_links" -> RTMType_NEWLINK

\* the decoder each dump query applies to a message of that type
Decode(call, family, payload) ==
    CASE call = "get_addresses" -> ParseAddressPayload(payload)
      [] call = "get_routes" -> ParseRoutePayload(payload)
      [] call = "get_rules" -> ParseRulePayload(payload)
      [] call = "get_inet_diag" -> ParseInetDiagMsg(family, payload)
      [] call = "get_links" -> ParseLinkPayload(payload)

\* one iteration of  for msg_type, payload in recv_msgs(sock)
CollectStep(call, family, msg) ==
    IF msg[1] # WantedType(call) THEN Skip ELSE Decode(call, family, msg[2])

----------------------------------------------------------------------------
(* The kernel side of the socket *)

\* A message as the kernel frames it: the header of pack_nlmsg with the
\* sequence number of the request and the port id of the socket, the body,
\* and padding to a multiple of 4 (NLMSG_ALIGN).
KernelPid == 4242

KernelFrame(m) ==
    PackU32(16 + Len(m.body)) \o PackU16(m.type) \o PackU16(m.flags)
        \o PackU32(1) \o PackU32(KernelPid) \o m.body
        \o Zeros(Align4(Len(m.body)) - Len(m.body))

RECURSIVE KernelFrames(_)
KernelFrames(batch) ==
    IF batch = <<>> THEN <<>>
    ELSE KernelFrame(Head(batch)) \o KernelFrames(Tail(batch))

KMsg(type, flags, body) == [type |-> type, flags |-> flags, body |-> body]

\* struct nlmsgerr: the signed code, then the header of the request it answers
ErrorBody(code) == PackI32(code) \o pack_nlmsg(18, 5, <<>>, 1)

ErrorCodes == {0, -19, -95, -2147483647}

\* what the kernel may answer to a request of the generic entry point
RawMsgs ==
    {KMsg(16, MULTI, <<1, 2, 3, 4, 5>>),
     KMsg(24, 0, <<>>),
     KMsg(16, MULTI + DUMP_INTR, <<1, 2, 3, 4, 5>>),
     KMsg(NLMsgType_DONE, MULTI, PackI32(0)),
     KMsg(NLMsgType_DONE, MULTI + DUMP_INTR, PackI32(0)),
     KMsg(NLMsgType_ERROR, DUMP_INTR, ErrorBody(0))}
    \cup {KMsg(NLMsgType_ERROR, 0, ErrorBody(c)) : c \in ErrorCodes}

\* struct ifinfomsg, struct ifaddrmsg, struct rtmsg (also the header of a FIB
\* rule) and struct inet_diag_msg as the kernel fills them
ifinfomsg(family, type, index, flags, change) ==
    <<family, 0>> \o PackU16(type) \o PackI32(index) \o PackU32(flags)
        \o PackU32(change)

ifaddrmsg(family, prefixlen, flags, scope, index) ==
    <<family, prefixlen, flags, scope>> \o PackU32(index)

rtmsg(family, dst_len, table, protocol, scope, type, flags) ==
    <<family, dst_len, 0, 0, table, protocol, scope, type>> \o PackU32(flags)

inet_diag_msg(family, state, sport, dport, src, dst, uid, inode) ==
    <<family, state, 0, 0, sport \div 256, sport % 256, dport \div 256, dport % 256>>
        \o src \o Zeros(16 - Len(src)) \o dst \o Zeros(16 - Len(dst))
        \o Zeros(4) \o Zeros(8) \o Zeros(12) \o PackU32(uid) \o PackU32(inode)

Forever == <<255, 255, 255, 255>>

AddrMsgs ==
    {KMsg(RTMType_NEWADDR, MULTI,
          ifaddrmsg(AF_INET, 24, 0, 0, 2) \o pack_nlattr(IFA_ADDRESS, <<10, 0, 0, 1>>)),
     KMsg(RTMType_NEWADDR, MULTI,
          ifaddrmsg(AF_INET, 8, 128, 254, 1)
              \o pack_nlattr(IFA_ADDRESS, <<127, 0, 0, 1>>)
              \o pack_nlattr(IFA_LABEL, <<108, 111, 0>>)
              \o pack_nlattr(IFA_CACHEINFO, Forever \o PackU32(3600) \o Zeros(8))),
     KMsg(RTMType_NEWADDR, MULTI, <<2, 24, 0, 0>>),
     KMsg(RTMType_NEWADDR, MULTI, ifaddrmsg(AF_INET, 24, 0, 0, 2)),
     KMsg(RTMType_NEWLINK, MULTI, Zeros(16)),
     KMsg(RTMType_NEWADDR, MULTI + DUMP_INTR,
          ifaddrmsg(AF_INET, 24, 0, 0, 2) \o pack_nlattr(IFA_ADDRESS, <<10, 0, 0, 1>>)),
     KMsg(NLMsgType_DONE, MULTI, PackI32(0))}

RouteMsgs ==
    {KMsg(RTMType_NEWROUTE, MULTI,
          rtmsg(AF_INET, 24, 254, 2, 253, 1, 0)
              \o pack_nlattr(RTA_DST, <<10, 0, 0, 0>>)
              \o pack_nlattr(RTA_OIF, PackU32(2))),
     KMsg(RTMType_NEWROUTE, MULTI,
          rtmsg(AF_INET, 0, 254, 4, 0, 1, 0)
              \o pack_nlattr(RTA_GATEWAY, <<10, 0, 0, 254>>)
              \o pack_nlattr(RTA_TABLE, PackU32(254))),
     KMsg(RTMType_NEWROUTE, MULTI, rtmsg(AF_INET, 32, 254, 0, 0, 1, RTM_F_CLONED)),
     KMsg(RTMType_NEWROUTE, MULTI, <<2, 24, 0, 0>>),
     KMsg(RTMType_NEWADDR, MULTI, Zeros(12)),
     KMsg(NLMsgType_DONE, MULTI, PackI32(0))}

RuleMsgs ==
    {KMsg(RTMType_NEWRULE, MULTI, rtmsg(AF_INET, 0, 254, 0, 0, 1, 0)),
     KMsg(RTMType_NEWRULE, MULTI,
          rtmsg(AF_INET, 0, 255, 0, 0, 1, 0)
              \o pack_nlattr(FRA_PRIORITY, PackU32(32766))
              \o pack_nlattr(FRA_SRC, <<10, 0, 0, 1>>)),
     KMsg(RTMType_NEWRULE, MULTI, <<2, 0, 0, 0>>),
     KMsg(RTMType_NEWROUTE, MULTI, Zeros(12)),
     KMsg(NLMsgType_DONE, MULTI, PackI32(0))}

DiagMsgs ==
    {KMsg(SOCK_DIAG_BY_FAMILY, MULTI,
          inet_diag_msg(AF_INET, 10, 22, 0, <<0, 0, 0, 0>>, <<0, 0, 0, 0>>, 0, 1234)),
     KMsg(SOCK_DIAG_BY_FAMILY, MULTI,
          inet_diag_msg(AF_INET, 1, 22, 51000, <<10, 0, 0, 1>>, <<10, 0, 0, 9>>,
                        1000, 5678)),
     KMsg(SOCK_DIAG_BY_FAMILY, MULTI, Zeros(8)),
     KMsg(NLMsgType_DONE, MULTI, PackI32(0))}

\* what the kernel may answer to the request of each call
KernelMsgs(call) ==
    CASE call = "get_addresses" -> AddrMsgs
      [] call = "get_routes" -> RouteMsgs
      [] call = "get_rules" -> RuleMsgs
      [] call = "get_inet_diag" -> DiagMsgs
      [] OTHER -> RawMsgs

IsIntr(m) == m.flags \in {DUMP_INTR, MULTI + DUMP_INTR}

IsError(m) == m.type = NLMsgType_ERROR

ErrorCode(m) == UnpackI32(m.body, 0)

IsTerminator(m) ==
    ~IsIntr(m) /\ (m.type = NLMsgType_DONE \/ (IsError(m) /\ ErrorCode(m) = 0))

IsData(m) == m.type \notin {NLMsgType_ERROR, NLMsgType_DONE}

----------------------------------------------------------------------------
(* SpecRecv: a request has been sent; the receive loop drains the answer *)

\* a caller has sent its request and calls recv_msgs(sock): messages = []
RecvMsgsCall ==
    /\ r_pc = "idle"
    /\ r_call' = "recv_msgs"
    /\ r_pc' = "recv"
    /\ r_messages' = <<>>
    /\ UNCHANGED <<r_data, r_offset, r_done, r_exc, r_result, r_emitted, r_reads,
                   r_parsed, r_src, r_term, r_sent, r_family, r_i, r_resSrc>>
    /\ RecvFrame

NLM_F_REQUEST == 1
NLM_F_ROOT == 256
NLM_F_MATCH == 512
NLM_F_DUMP == NLM_F_ROOT + NLM_F_MATCH

RT_TABLE_MAIN == 254
FR_ACT_TO_TBL == 1
IPPROTO_TCP == 6
SS_ALL == 4095

pack_nlattr_u32(attr_type, val) == pack_nlattr(attr_type, PackU32(val))

\* the part common to the dump queries: sock.send(msg), then the result list
\* starts empty and recv_msgs(sock) is called
SendDump(call, family, msg) ==
    /\ r_pc = "idle"
    /\ r_call' = call
    /\ r_family' = family
    /\ r_sent' = msg
    /\ r_pc' = "recv"
    /\ r_messages' = <<>>
    /\ UNCHANGED <<r_data, r_offset, r_done, r_exc, r_result, r_emitted, r_reads,
                   r_parsed, r_src, r_term, r_i, r_resSrc>>
    /\ RecvFrame

\* get_addresses(sock)
GetAddresses ==
    SendDump("get_addresses", AF_UNSPEC,
             pack_nlmsg(RTMType_GETADDR, NLM_F_REQUEST + NLM_F_DUMP,
                        <<AF_UNSPEC, 0, 0, 0>> \o PackU32(0), 1))

\* get_routes(sock), family and table left at their defaults
GetRoutes ==
    SendDump("get_routes", AF_UNSPEC,
             pack_nlmsg(RTMType_GETROUTE, NLM_F_REQUEST + NLM_F_DUMP,
                        <<AF_UNSPEC, 0, 0, 0, 0, 0, 0, 0>> \o PackU32(0)
                            \o pack_nlattr_u32(RTA_TABLE, RT_TABLE_MAIN), 1))

\* get_rules(sock), family left at its default
GetRules ==
    SendDump("get_rules", AF_UNSPEC,
             pack_nlmsg(RTMType_GETRULE, NLM_F_REQUEST + NLM_F_DUMP,
                        <<AF_UNSPEC, 0, 0, 0, 0, 0, 0, FR_ACT_TO_TBL>> \o PackU32(0), 1))

\* get_inet_diag(sock, family), protocol and states left at their defaults
GetInetDiag ==
    \E family \in {AF_INET, AF_INET6} :
        SendDump("get_inet_diag", family,
                 pack_nlmsg(SOCK_DIAG_BY_FAMILY,
                            NLM_F_REQUEST + NLM_F_ROOT + NLM_F_MATCH,
                            <<family, IPPROTO_TCP, 0, 0>> \o PackU32(SS_ALL)
                                \o Zeros(48), 1))

\* data = sock.recv(65536); offset = 0; done = False.  The read returns one or
\* more whole messages, the next ones of the kernel's answer: at most MaxBatch
\* in one read, at most MaxMsgs in one call.
SockRecv ==
    /\ r_pc = "recv"
    /\ Len(r_emitted) < MaxMsgs
    /\ \E n \in 1..Min(MaxBatch, MaxMsgs - Len(r_emitted)) :
         \E batch \in [1..n -> KernelMsgs(r_call)] :
            /\ r_data' = KernelFrames(batch)
            /\ r_emitted' = r_emitted \o
                  [i \in 1..n |-> [type |-> batch[i].type, flags |-> batch[i].flags,
                                   body |-> batch[i].body, read |-> r_reads + 1]]
    /\ r_reads' = r_reads + 1
    /\ r_offset' = 0
    /\ r_done' = FALSE
    /\ r_pc' = "parse"
    /\ UNCHANGED <<r_call, r_messages, r_exc, r_result, r_parsed, r_src, r_term,
                   r_sent, r_family, r_i, r_resSrc>>
    /\ RecvFrame

\* one iteration of the inner loop
RecvParse ==
    /\ r_pc = "parse"
    /\ LET o == RecvStep(r_data, r_offset) IN
       /\ o.kind # "break"
       /\ r_parsed' = r_parsed + 1
       /\ IF o.kind = "raise"
          THEN /\ r_pc' = "raised"
               /\ r_exc' = o.exc
               /\ UNCHANGED <<r_offset, r_done, r_messages, r_src, r_term>>
          ELSE /\ r_pc' = "parse"
               /\ r_offset' = o.next
               /\ r_exc' = r_exc
               /\ IF o.kind = "done"
                  THEN /\ r_done' = TRUE
                       /\ r_term' = IF r_term.seen THEN r_term
                                    ELSE [seen |-> TRUE, index |-> r_parsed + 1,
                                          acc |-> r_messages]
                       /\ UNCHANGED <<r_messages, r_src>>
                  ELSE /\ r_messages' = Append(r_messages, o.msg)
                       /\ r_src' = Append(r_src, r_parsed + 1)
                       /\ UNCHANGED <<r_done, r_term>>
    /\ UNCHANGED <<r_call, r_data, r_result, r_emitted, r_reads, r_sent, r_family,
                   r_i, r_resSrc>>
    /\ RecvFrame

\* the inner loop is left: if done: break, and return messages; otherwise the
\* outer loop reads again.  A dump query then walks the returned list.
RecvEndRead ==
    /\ r_pc = "parse"
    /\ RecvStep(r_data, r_offset).kind = "break"
    /\ IF ~r_done
       THEN /\ r_pc' = "recv"
            /\ UNCHANGED <<r_result, r_resSrc>>
       ELSE IF r_call = "recv_msgs"
       THEN /\ r_pc' = "returned"
            /\ r_result' = r_messages
            /\ r_resSrc' = r_src
       ELSE /\ r_pc' = "collect"
            /\ UNCHANGED <<r_result, r_resSrc>>
    /\ UNCHANGED <<r_call, r_data, r_offset, r_done, r_messages, r_exc, r_emitted,
                   r_reads, r_parsed, r_src, r_term, r_sent, r_family, r_i>>
    /\ RecvFrame

\* a result list built by inserting at the front
ResultAppend_Front(list, x) == <<x>> \o list

\* addresses.append(addr_info), routes.append(route_info), rules.append(...),
\* results.append(entry)
ResultAppend(list, x) == Append(list, x)

\* one step of the for loop of a dump query over the list recv_msgs returned;
\* when the list is exhausted the result list is returned
Collect ==
    /\ r_pc = "collect"
    /\ IF r_i >= Len(r_messages)
       THEN /\ r_pc' = "returned"
            /\ UNCHANGED <<r_i, r_result, r_resSrc, r_exc>>
       ELSE LET d == CollectStep(r_call, r_family, r_messages[r_i + 1]) IN
            /\ r_i' = r_i + 1
            /\ IF d.kind = "raise"
               THEN /\ r_pc' = "raised"
                    /\ r_exc' = Exc(d.rec, NoErrno)
                    /\ UNCHANGED <<r_result, r_resSrc>>
               ELSE /\ r_pc' = "collect"
                    /\ r_exc' = r_exc
                    /\ IF d.kind = "record"
                       THEN /\ r_result' = ResultAppend(r_result, d.rec)
                            /\ r_resSrc' = ResultAppend(r_resSrc, r_src[r_i + 1])
                       ELSE UNCHANGED <<r_result, r_resSrc>>
    /\ UNCHANGED <<r_call, r_data, r_offset, r_done, r_messages, r_emitted, r_reads,
                   r_parsed, r_src, r_term, r_sent, r_family>>
    /\ RecvFrame

NextRecv ==
    \/ RecvMsgsCall
    \/ GetAddresses
    \/ GetRoutes
    \/ GetRules
    \/ GetInetDiag
    \/ SockRecv
    \/ RecvParse
    \/ RecvEndRead
    \/ Collect

SpecRecv == Init /\ [][NextRecv]_vars

----------------------------------------------------------------------------
(* Properties of the receive loop *)

\* the message the inner loop handled in its last iteration
LastParsed == r_emitted[r_parsed]

\* the last step was an iteration of the inner loop on LastParsed
JustParsed ==
    /\ r_pc \in {"parse", "raised"}
    /\ r_parsed >= 1
    /\ r_parsed <= Len(r_emitted)
    /\ LastParsed.read = r_reads

\* recv_msgs has returned its list, r_messages, to its caller
RecvReturned == r_pc \in {"collect", "returned"}

IsPrefix(s, t) == Len(s) <= Len(t) /\ SubSeq(t, 1, Len(s)) = s

\* the <<type, payload>> records of the first n emitted messages
EmittedRecords(n) == [i \in 1..n |-> <<r_emitted[i].type, r_emitted[i].body>>]

WellFormedDump ==
    /\ Len(r_emitted) >= 1
    /\ IsTerminator(r_emitted[Len(r_emitted)])
    /\ \A i \in 1..(Len(r_emitted) - 1) : IsData(r_emitted[i]) /\ ~IsIntr(r_emitted[i])

C2_DumpDrained ==
    /\ (RecvReturned /\ WellFormedDump) =>
          r_messages = EmittedRecords(Len(r_emitted) - 1)
    /\ (r_pc = "raised" /\ r_i = 0) =>
          (IsIntr(LastParsed) \/ (IsError(LastParsed) /\ ErrorCode(LastParsed) < 0))

C2_Witness ==
    /\ r_pc = "returned"
    /\ r_call = "recv_msgs"
    /\ WellFormedDump
    /\ Len(r_emitted) = 3
    /\ r_emitted[1].read = 1 /\ r_emitted[2].read = 1 /\ r_emitted[3].read = 2
    /\ r_emitted[3].type = NLMsgType_DONE
    /\ r_messages = << <<16, <<1, 2, 3, 4, 5>>>>, <<24, <<>>>> >>

\* C3: a parsed message whose flags include DUMP_INTR raises DumpInterrupted
\* whatever its type; no message is parsed after it and no record is returned.
C3_DumpInterrupted ==
    /\ (JustParsed /\ IsIntr(LastParsed)) =>
          (r_pc = "raised" /\ r_exc = Exc("DumpInterrupted", NoErrno))
    /\ \A i \in 1..(r_parsed - 1) : ~IsIntr(r_emitted[i])
    /\ r_exc.type = "DumpInterrupted" => (r_pc = "raised" /\ r_result = <<>>)

C3_Witness ==
    /\ r_pc = "raised"
    /\ r_exc.type = "DumpInterrupted"
    /\ LastParsed.type = NLMsgType_DONE
    /\ Len(r_messages) = 2
    /\ r_parsed < Len(r_emitted)

\* C4: the returned list holds exactly the data messages that precede the
\* first terminating message; nothing that follows it is returned.
C4_StopsAtTerminator ==
    RecvReturned => r_messages = r_term.acc

\* C5: the records a dump query returns are decoded from data messages of the
\* kernel's answer and stand in the order in which those were emitted: the
\* emission indices of the returned records increase strictly.
DumpCalls == {"get_addresses", "get_routes", "get_rules", "get_inet_diag"}

C5_EmissionOrder ==
    (r_call \in DumpCalls /\ r_pc \in {"collect", "returned"}) =>
        /\ Len(r_resSrc) = Len(r_result)
        /\ \A i, j \in 1..Len(r_resSrc) : i < j => r_resSrc[i] < r_resSrc[j]
        /\ \A i \in 1..Len(r_resSrc) :
              LET m == r_emitted[r_resSrc[i]]
                  d == Decode(r_call, r_family, m.body)
              IN  /\ IsData(m)
                  /\ m.type = WantedType(r_call)
                  /\ d.kind = "record"
                  /\ r_result[i] = d.rec

C5_Witness ==
    /\ r_pc = "returned"
    /\ r_call = "get_routes"
    /\ r_reads = 3
    /\ Len(r_emitted) = 4
    /\ r_resSrc = <<1, 3>>
    /\ r_result[1].dst = Some(<<10, 0, 0, 0>>)
    /\ r_result[2].gateway = Some(<<10, 0, 0, 254>>)

----------------------------------------------------------------------------
(* Properties of the attribute codec *)

PlainBuilt == \A i \in 1..Len(a_built) : ~a_built[i].nested

DistinctBuilt ==
    \A i, j \in 1..Len(a_built) : i # j => a_built[i].type # a_built[j].type

IsLastOfType(i) ==
    \A j \in 1..Len(a_built) : j > i => a_built[j].type # a_built[i].type

\* the dict of the encoded attributes, the last occurrence of a type winning
ExpectedAttrs ==
    [t \in {a_built[i].type : i \in 1..Len(a_built)} |->
        a_built[CHOOSE i \in 1..Len(a_built) :
                    a_built[i].type = t /\ IsLastOfType(i)].data]

\* C6: parse_attrs(pack_nlattr(T, payload)) is exactly {T: payload}, and
\* parsing the concatenation of the encodings of attributes with pairwise
\* distinct types returns every one of them with its exact payload.
C6_RoundTrip ==
    /\ \A i \in 1..Len(a_built) :
         (a_pc = "build" /\ ~a_built[i].nested) =>
            parse_attrs(a_packed[i], 0) = (a_built[i].type :> a_built[i].data)
    /\ (a_pc = "done" /\ a_tail.kind = "none" /\ PlainBuilt /\ DistinctBuilt) =>
         /\ DOMAIN a_attrs = {a_built[i].type : i \in 1..Len(a_built)}
         /\ \A i \in 1..Len(a_built) : a_attrs[a_built[i].type] = a_built[i].data

C6_Witness ==
    /\ a_pc = "done" /\ a_tail.kind = "none" /\ PlainBuilt /\ DistinctBuilt
    /\ Len(a_built) = 2
    /\ a_built[1].type = 32767 /\ a_built[1].data = <<161, 162, 163, 164, 165>>
    /\ a_built[2].type = 0 /\ a_built[2].data = <<0>>
    /\ a_attrs = (32767 :> <<161, 162, 163, 164, 165>>) @@ (0 :> <<0>>)

\* C7: pack_nlattr writes 4 + L in the length field and emits the smallest
\* multiple of 4 that is >= 4 + L bytes: header, payload, then zero bytes.
C7_Padding ==
    \A i \in 1..Len(a_built) :
        LET b == a_packed[i]
            L == Len(a_built[i].data)
        IN  a_pc = "build" =>
            /\ UnpackU16(b, 0) = 4 + L
            /\ Len(b) % 4 = 0
            /\ Len(b) >= 4 + L
            /\ Len(b) - 4 < 4 + L
            /\ SubSeq(b, 5, 4 + L) = a_built[i].data
            /\ \A k \in (4 + L + 1)..Len(b) : b[k] = 0

C7_Witness ==
    /\ a_pc = "build"
    /\ Len(a_built) = 2
    /\ Len(a_built[1].data) = 1 /\ Len(a_packed[1]) = 8
    /\ Len(a_built[2].data) = 4 /\ Len(a_packed[2]) = 8

\* C8: no key of the dict returned by parse_attrs has bit 15 set, and an
\* attribute encoded with pack_nlattr_nested(T, ...) is decoded under key T.
C8_NestedBitStripped ==
    /\ \A k \in DOMAIN a_attrs : k < NESTED
    /\ \A i \in 1..Len(a_built) :
         (a_pc = "build" /\ a_built[i].nested) =>
            parse_attrs(a_packed[i], 0) = (a_built[i].type :> a_built[i].data)
    /\ (a_pc = "done" /\ a_tail.kind = "none") =>
         \A i \in 1..Len(a_built) :
            (a_built[i].nested /\ IsLastOfType(i)) =>
                /\ a_built[i].type \in DOMAIN a_attrs
                /\ a_attrs[a_built[i].type] = a_built[i].data

C8_Witness ==
    /\ a_pc = "done" /\ a_tail.kind = "none"
    /\ Len(a_built) = 2
    /\ ~a_built[1].nested /\ a_built[1].type = 1
    /\ a_built[2].nested /\ a_built[2].type = 32767 /\ a_built[2].data # <<>>
    /\ DOMAIN a_attrs = {1, 32767}
    /\ a_attrs[32767] = a_built[2].data

\* C9: on a buffer of well-formed attributes followed by a header cut short
\* (1 to 3 bytes) or by a header whose declared length is below 4, parse_attrs
\* raises nothing, ends after at most len(data) / 4 iterations, and returns
\* every attribute that precedes the malformed header.
C9_TruncationSafe ==
    /\ a_pc # "raised"
    /\ 4 * a_iters <= a_offset
    /\ 4 * a_iters <= Len(a_data)
    /\ (a_pc = "done" /\ a_tail.kind \in {"cut", "short"}) =>
         a_attrs = ExpectedAttrs

C9_Witness ==
    /\ a_pc = "done"
    /\ a_tail.kind = "cut" /\ Len(a_tail.bytes) = 2
    /\ Len(a_built) = 2 /\ DistinctBuilt
    /\ Len(a_built[2].data) = 3
    /\ DOMAIN a_attrs = {a_built[1].type, a_built[2].type}
    /\ a_attrs[a_built[2].type] = a_built[2].data

\* C10: an attribute whose declared length exceeds the bytes remaining from
\* its header stops the scan and is not stored, so every payload of the
\* returned dict has exactly (declared length - 4) bytes.
C10_OverlongRejected ==
    a_pc = "done" =>
        /\ \A k \in DOMAIN a_attrs : Len(a_attrs[k]) = a_declared[k] - 4
        /\ a_tail.kind = "over" => 5 \notin DOMAIN a_attrs

----------------------------------------------------------------------------
(* recv_msgs as a function of what is queued on the socket.  The queue is a *)
(* sequence of datagrams; each sock.recv takes the next one.  A value that  *)
(* is used several times is bound once, as the element of a singleton set.  *)

\* the inner loop of recv_msgs over one datagram, from offset on
RECURSIVE RecvInner(_, _, _, _)
RecvInner(data, offset, done, messages) ==
    CHOOSE r \in
        {IF o.kind = "break"
         THEN [raised |-> FALSE, exc |-> NoExc, done |-> done, messages |-> messages]
         ELSE IF o.kind = "raise"
         THEN [raised |-> TRUE, exc |-> o.exc, done |-> done, messages |-> messages]
         ELSE IF o.kind = "done" THEN RecvInner(data, o.next, TRUE, messages)
         ELSE RecvInner(data, o.next, done, Append(messages, o.msg))
            : o \in {RecvStep(data, offset)}} : TRUE

\* the outer loop: used datagrams have been taken off the queue
RECURSIVE RecvOuter(_, _, _)
RecvOuter(queue, used, messages) ==
    IF used >= Len(queue)
    THEN [kind |-> "blocked", exc |-> NoExc, messages |-> <<>>, used |-> used]
    ELSE CHOOSE out \in
        {IF r.raised
         THEN [kind |-> "raised", exc |-> r.exc, messages |-> <<>>, used |-> used + 1]
         ELSE IF r.done
         THEN [kind |-> "returned", exc |-> NoExc, messages |-> r.messages,
               used |-> used + 1]
         ELSE RecvOuter(queue, used + 1, r.messages)
            : r \in {RecvInner(queue[used + 1], 0, FALSE, messages)}} : TRUE

\* recv_msgs(sock): "returned" with the list, "raised" with the exception, or
\* "blocked" in sock.recv when the queue runs dry before a terminating message;
\* used is the number of datagrams it took off the queue
recv_msgs(queue) == RecvOuter(queue, 0, <<>>)

\* the kernel's acknowledgement of a request, or its refusal with -code
AckDatagram == KernelFrame(KMsg(NLMsgType_ERROR, 0, ErrorBody(0)))

ErrDatagram(code) == KernelFrame(KMsg(NLMsgType_ERROR, 0, ErrorBody(0 - code)))

----------------------------------------------------------------------------
(* address/address.py: add_address *)

NLM_F_ACK == 4
NLM_F_EXCL == 512
NLM_F_CREATE == 1024
RTMType_DELADDR == 21
EEXIST == 17

\* 2 ^ n for the n a byte can need
Pow2(n) == CASE n = 0 -> 1 [] n = 1 -> 2 [] n = 2 -> 4 [] n = 3 -> 8 [] n = 4 -> 16
             [] n = 5 -> 32 [] n = 6 -> 64 [] n = 7 -> 128 [] n = 8 -> 256

\* how many of the 32 - prefixlen host bits fall into byte k of the packed
\* address (k = 1 is the most significant byte)
HostBits(prefixlen, k) ==
    LET n == (32 - prefixlen) - 8 * (4 - k) IN
    IF n < 0 THEN 0 ELSE IF n > 8 THEN 8 ELSE n

\* the network address only
BroadcastAddress_Network(address, prefixlen) ==
    [k \in 1..4 |-> BitAnd(address[k], 255 - (Pow2(HostBits(prefixlen, k)) - 1))]

\* ipaddress.IPv4Network(f"{address}/{prefixlen}", strict=False)
\*     .broadcast_address.packed:
\* int(network_address) | int(hostmask), with network_address the address
\* masked by the netmask, computed here byte by byte
BroadcastAddress(address, prefixlen) ==
    [k \in 1..4 |->
        LET hostmask == Pow2(HostBits(prefixlen, k)) - 1 IN
        BitOr(BitAnd(address[k], 255 - hostmask), hostmask)]

\* add_address up to sock.send: the request it builds.  address is the packed
\* address (4 or 16 bytes), broadcast an optional packed IPv4 address.
AddAddressRequest(address, prefixlen, ifindex, broadcast) ==
    LET isV4 == Len(address) = 4
        family == IF isV4 THEN AF_INET ELSE AF_INET6
        bcast_bytes == IF ~isV4 THEN <<>>
                       ELSE IF ~broadcast.some THEN BroadcastAddress(address, prefixlen)
                       ELSE broadcast.val
        attrs == pack_nlattr(IFA_LOCAL, address) \o pack_nlattr(IFA_ADDRESS, address)
                    \o (IF bcast_bytes # <<>> THEN pack_nlattr(IFA_BROADCAST, bcast_bytes)
                        ELSE <<>>)
    IN  pack_nlmsg(RTMType_NEWADDR,
                   NLM_F_REQUEST + NLM_F_ACK + NLM_F_CREATE + NLM_F_EXCL,
                   <<family, prefixlen, 0, 0>> \o PackU32(ifindex) \o attrs, 1)

V4Addresses == {<<192, 168, 1, 10>>, <<10, 255, 0, 129>>, <<0, 0, 0, 0>>,
                <<255, 255, 255, 255>>, <<172, 16, 85, 170>>}

V6Addresses == {<<32, 1, 13, 184>> \o Zeros(11) \o <<1>>}

Broadcasts == {NoneStr, Some(<<192, 168, 1, 63>>)}

\* add_address(sock, address, prefixlen, index=ifindex, broadcast=broadcast):
\* the request is sent, then recv_msgs reads the kernel's answer
AddAddress ==
    /\ b_pc = "idle"
    /\ \E address \in V4Addresses \cup V6Addresses, prefixlen \in 0..32,
          broadcast \in Broadcasts, answer \in {AckDatagram, ErrDatagram(EEXIST)} :
          LET r == recv_msgs(<<answer>>) IN
          /\ b_args' = [address |-> address, prefixlen |-> prefixlen, ifindex |-> 2,
                        broadcast |-> broadcast]
          /\ b_sent' = AddAddressRequest(address, prefixlen, 2, broadcast)
          /\ b_pc' = r.kind
          /\ b_exc' = r.exc
    /\ AddrCallFrame

NextAddress == AddAddress

SpecAddress == Init /\ [][NextAddress]_vars

----------------------------------------------------------------------------
(* The decoders applied to single payloads: SpecDecode hands each decoder  *)
(* a payload, well-formed or not, and records what comes out.              *)

\* b"lo\x00"
Name_lo == <<108, 111, 0>>

LinkHeader == ifinfomsg(AF_UNSPEC, 772, 1, 65609, 0)

\* attribute payloads of every width a fixed-width read may meet, a hardware
\* address, and a string that is not valid UTF-8
AttrDatas ==
    {<<>>, <<6>>, <<220, 5>>, <<0, 0, 1, 0>>, <<0, 17, 34, 51, 68, 85>>,
     <<101, 255, 0>>}

LinkAttrTypes ==
    {IFLA_MTU, IFLA_OPERSTATE, IFLA_ADDRESS, IFLA_TXQLEN, IFLA_CARRIER,
     IFLA_NUM_TX_QUEUES, IFLA_MASTER, IFLA_LINK, IFLA_PARENT_DEV_NAME}

LinkInfoOf(kind, data) ==
    pack_nlattr_nested(IFLA_LINKINFO,
        pack_nlattr(IFLA_INFO_KIND, kind \o <<0>>)
            \o pack_nlattr_nested(IFLA_INFO_DATA, data))

LinkExtras ==
    {<<>>}
    \cup {pack_nlattr(t, d) : t \in LinkAttrTypes, d \in AttrDatas}
    \cup {LinkInfoOf(Str_bond, pack_nlattr(IFLA_BOND_MODE, d)) : d \in {<<>>, <<4>>}}
    \cup {LinkInfoOf(Str_bridge, pack_nlattr(IFLA_BR_PRIORITY, d)) :
            d \in {<<0>>, <<0, 128>>}}
    \cup {LinkInfoOf(Str_vlan, pack_nlattr(IFLA_VLAN_ID, d)) \o pack_nlattr(IFLA_LINK, e) :
            d \in {<<7>>, <<7, 0>>}, e \in {<<2, 0>>, <<2, 0, 0, 0>>}}
    \cup {pack_nlattr_nested(IFLA_PROP_LIST,
            pack_nlattr(IFLA_ALT_IFNAME, <<101, 110, 48, 0>>)
                \o pack_nlattr(IFLA_ALT_IFNAME, <<101, 255, 0>>))}

LinkPayloads ==
    {Zeros(8), LinkHeader, LinkHeader \o pack_nlattr(IFLA_IFNAME, <<0>>)}
    \cup {LinkHeader \o pack_nlattr(IFLA_IFNAME, Name_lo) \o x : x \in LinkExtras}

\* the 32-bit words a lifetime may hold: forever, 0, an hour, 2^32 - 2, 2^31 - 1
LifetimeWords ==
    {Forever, <<0, 0, 0, 0>>, <<16, 14, 0, 0>>, <<254, 255, 255, 255>>,
     <<255, 255, 255, 127>>}

AddrHeader == ifaddrmsg(AF_INET, 24, 128, 0, 2)

AddrExtras ==
    {<<>>}
    \cup {pack_nlattr(IFA_CACHEINFO, p \o v \o Zeros(8)) :
            p \in LifetimeWords, v \in LifetimeWords}
    \cup {pack_nlattr(IFA_CACHEINFO, p \o v) : p \in {Forever}, v \in LifetimeWords}
    \cup {pack_nlattr(IFA_CACHEINFO, <<16, 14, 0, 0>>)}
    \cup {pack_nlattr(t, d) : t \in {IFA_PROTO, IFA_LABEL, IFA_BROADCAST},
                               d \in AttrDatas}

AddrPayloads ==
    {Zeros(4), AddrHeader, AddrHeader \o pack_nlattr(IFA_LOCAL, <<10, 0, 0, 1>>),
     AddrHeader \o pack_nlattr(IFA_ADDRESS, <<10, 0>>)}
    \cup {AddrHeader \o pack_nlattr(IFA_ADDRESS, <<10, 0, 0, 1>>) \o x : x \in AddrExtras}

RoutePayloads ==
    {Zeros(11), rtmsg(AF_INET, 32, 254, 0, 0, 1, RTM_F_CLONED)}
    \cup {rtmsg(AF_INET, 24, 254, 2, 253, 1, 0) \o pack_nlattr(t, d) :
            t \in {RTA_DST, RTA_OIF, RTA_PRIORITY, RTA_TABLE}, d \in AttrDatas}

RulePayloads ==
    {Zeros(11), rtmsg(AF_INET, 0, 254, 0, 0, 1, 0)}
    \cup {rtmsg(AF_INET, 0, 254, 0, 0, 1, 0) \o pack_nlattr(t, d) :
            t \in {FRA_IIFNAME, FRA_PRIORITY, FRA_SRC, FRA_PROTOCOL, FRA_TABLE},
            d \in AttrDatas}

DiagPayloads ==
    {Zeros(71), Zeros(72),
     inet_diag_msg(AF_INET, 1, 22, 51000, <<10, 0, 0, 1>>, <<10, 0, 0, 9>>, 1000, 5678),
     inet_diag_msg(AF_INET, 10, 22, 0, <<>>, <<>>, 0, 1234) \o <<1, 2, 3, 4>>}

\* one decoder is called on one payload
Decoded(decoder, payload, out) ==
    /\ d_pc = "idle"
    /\ d_pc' = "done"
    /\ d_decoder' = decoder
    /\ d_payload' = payload
    /\ d_out' = out
    /\ DecFrame

DecodeLink == \E p \in LinkPayloads : Decoded("link", p, ParseLinkPayload(p))

DecodeAddress == \E p \in AddrPayloads : Decoded("address", p, ParseAddressPayload(p))

DecodeRoute == \E p \in RoutePayloads : Decoded("route", p, ParseRoutePayload(p))

DecodeRule == \E p \in RulePayloads : Decoded("rule", p, ParseRulePayload(p))

DecodeInetDiag ==
    \E p \in DiagPayloads, family \in {AF_INET, AF_INET6} :
        Decoded("inet_diag", p, ParseInetDiagMsg(family, p))

NextDecode ==
    \/ DecodeLink
    \/ DecodeAddress
    \/ DecodeRoute
    \/ DecodeRule
    \/ DecodeInetDiag

SpecDecode == Init /\ [][NextDecode]_vars

----------------------------------------------------------------------------
(* The pooled handles and the process-wide name tables *)

Pools == {"address", "ethtool"}

\* socket.fileno(): the descriptor of an open socket, -1 once it is closed,
\* OSError from a socket object that no longer answers
fileno(sock) ==
    CASE sock = "open"   -> [raised |-> FALSE, value |-> 3]
      [] sock = "closed" -> [raised |-> FALSE, value |-> -1]
      [] OTHER           -> [raised |-> TRUE, value |-> 0]

\* a variant that takes every descriptor fileno() returns for a valid one
needs_reconnect_NoFilenoTest(h) ==
    IF h = 0 THEN TRUE
    ELSE IF h_sock[h] = "unset" THEN TRUE
    ELSE fileno(h_sock[h]).raised

\* the test get_address_netlink and get_ethtool make on the context's handle
needs_reconnect(h) ==
    IF h = 0 THEN TRUE
    ELSE IF h_sock[h] = "unset" THEN TRUE
    ELSE LET f == fileno(h_sock[h])
         IN  IF f.raised THEN TRUE ELSE f.value = -1

\* AddressNetlink.close and EthtoolNetlink.close on a handle whose _sock is
\* sock: a socket that is set is closed and _sock becomes None; the close of a
\* broken socket raises OSError and leaves the handle as it was
close(sock) ==
    CASE sock = "unset"  -> [raised |-> FALSE, sock |-> "unset"]
      [] sock = "broken" -> [raised |-> TRUE, sock |-> "broken"]
      [] OTHER           -> [raised |-> FALSE, sock |-> "unset"]

\* the handles after handle h of the pool was closed; EthtoolNetlink.close
\* also forgets the handle's own references to the tables
SocksAfterClose(h) ==
    IF h = 0 THEN h_sock ELSE [h_sock EXCEPT ![h] = close(h_sock[h]).sock]

NamesAfterClose(pool, h) ==
    IF h = 0 \/ pool # "ethtool" \/ close(h_sock[h]).raised
    THEN h_names
    ELSE [h_names EXCEPT ![h] = <<0, 0>>]

AbsentHandles == {h \in Handles : h_sock[h] = "absent"}

\* the object a constructor call makes: one that did not exist before
NewHandle == CHOOSE h \in AbsentHandles : \A k \in AbsentHandles : h <= k

\* how a call ended: what it was, who made it, the handle it returned
Returned(op, t, h) == [op |-> op, kind |-> "returned", thread |-> t, handle |-> h]

Raised(op, t, what) == [op |-> op, kind |-> what, thread |-> t, handle |-> 0]

\* the calls that return nothing
Done(op, t) == [op |-> op, kind |-> "returned", thread |-> t, handle |-> 0]

CacheFrame ==
    UNCHANGED <<g_link_mode_names, g_feature_names, g_lock, g_made, g_queries,
                g_returned, t_tables>>

\* get_address_netlink(), whole: nothing in it is shared between threads
GetAddressNetlink(t) ==
    /\ t_pc[t] = "idle"
    /\ LET nl == h_ctx[t].address
       IN  IF ~needs_reconnect(nl)
           THEN /\ h_last' = Returned("get_address_netlink", t, nl)
                /\ UNCHANGED <<h_sock, h_ctx, g_faults>>
           ELSE \/ /\ AbsentHandles # {}
                   /\ h_sock' = [SocksAfterClose(nl) EXCEPT ![NewHandle] = "open"]
                   /\ h_ctx' = [h_ctx EXCEPT ![t].address = NewHandle]
                   /\ h_last' = Returned("get_address_netlink", t, NewHandle)
                   /\ UNCHANGED g_faults
                \/ /\ g_faults < MaxFaults
                   /\ g_faults' = g_faults + 1
                   /\ h_sock' = SocksAfterClose(nl)
                   /\ h_last' = Raised("get_address_netlink", t, "OSError")
                   /\ UNCHANGED h_ctx
    /\ UNCHANGED <<h_names, t_pc, t_call>>
    /\ CacheFrame
    /\ HandleFrame

\* close_address_netlink() and close_ethtool()
ClosePooled(t, pool) ==
    /\ t_pc[t] = "idle"
    /\ LET h == h_ctx[t][pool]
           op == IF pool = "address" THEN "close_address_netlink"
                 ELSE "close_ethtool"
       IN  IF h = 0
           THEN /\ h_last' = Done(op, t)
                /\ UNCHANGED <<h_sock, h_names, h_ctx>>
           ELSE IF close(h_sock[h]).raised
           THEN /\ h_last' = Raised(op, t, "OSError")
                /\ UNCHANGED <<h_sock, h_names, h_ctx>>
           ELSE /\ h_sock' = SocksAfterClose(h)
                /\ h_names' = NamesAfterClose(pool, h)
                /\ h_ctx' = [h_ctx EXCEPT ![t][pool] = 0]
                /\ h_last' = Done(op, t)
    /\ UNCHANGED <<g_faults, t_pc, t_call>>
    /\ CacheFrame
    /\ HandleFrame

CloseAddressNetlink(t) == ClosePooled(t, "address")

CloseEthtool(t) == ClosePooled(t, "ethtool")

\* the caller closes the handle it was given: nl.close()
HandleClose(t, pool) ==
    /\ t_pc[t] = "idle"
    /\ h_ctx[t][pool] # 0
    /\ LET h == h_ctx[t][pool]
       IN  IF close(h_sock[h]).raised
           THEN /\ h_last' = Raised("close", t, "OSError")
                /\ UNCHANGED <<h_sock, h_names>>
           ELSE /\ h_sock' = SocksAfterClose(h)
                /\ h_names' = NamesAfterClose(pool, h)
                /\ h_last' = Done("close", t)
    /\ UNCHANGED <<h_ctx, g_faults, t_pc, t_call>>
    /\ CacheFrame
    /\ HandleFrame

\* the caller closes the handle's socket object: nl._sock.close()
SocketClose(t, pool) ==
    /\ t_pc[t] = "idle"
    /\ h_ctx[t][pool] # 0
    /\ h_sock[h_ctx[t][pool]] = "open"
    /\ h_sock' = [h_sock EXCEPT ![h_ctx[t][pool]] = "closed"]
    /\ h_last' = Done("socket.close", t)
    /\ UNCHANGED <<h_names, h_ctx, g_faults, t_pc, t_call>>
    /\ CacheFrame
    /\ HandleFrame

\* the handle's socket object stops answering: fileno() and close() raise OSError
SocketBreak(t, pool) ==
    /\ t_pc[t] = "idle"
    /\ h_ctx[t][pool] # 0
    /\ h_sock[h_ctx[t][pool]] = "open"
    /\ g_faults < MaxFaults
    /\ g_faults' = g_faults + 1
    /\ h_sock' = [h_sock EXCEPT ![h_ctx[t][pool]] = "broken"]
    /\ h_last' = Done("socket.break", t)
    /\ UNCHANGED <<h_names, h_ctx, t_pc, t_call>>
    /\ CacheFrame
    /\ HandleFrame

\* get_ethtool() up to its call of _ensure_global_caches(): a valid handle is
\* returned at once, any other is closed first
GetEthtool(t) ==
    /\ t_pc[t] = "idle"
    /\ LET eth == h_ctx[t].ethtool
       IN  IF ~needs_reconnect(eth)
           THEN /\ h_last' = Returned("get_ethtool", t, eth)
                /\ UNCHANGED <<h_sock, h_names, t_pc, t_call>>
           ELSE /\ h_sock' = SocksAfterClose(eth)
                /\ h_names' = NamesAfterClose("ethtool", eth)
                /\ t_pc' = [t_pc EXCEPT ![t] = "check"]
                /\ t_call' = [t_call EXCEPT ![t] = "get_ethtool"]
                /\ h_last' = NoReturn
    /\ UNCHANGED <<h_ctx, g_faults>>
    /\ CacheFrame
    /\ HandleFrame

\* a direct call of _ensure_global_caches()
EnsureGlobalCaches(t) ==
    /\ t_pc[t] = "idle"
    /\ t_pc' = [t_pc EXCEPT ![t] = "check"]
    /\ t_call' = [t_call EXCEPT ![t] = "_ensure_global_caches"]
    /\ h_last' = NoReturn
    /\ UNCHANGED <<h_sock, h_names, h_ctx, g_faults>>
    /\ CacheFrame
    /\ HandleFrame

\* the test made without the lock
CachesResolved == g_link_mode_names # 0 /\ g_feature_names # 0

\* a variant whose test under the lock never finds the tables
CachesResolvedUnderLock_Never == FALSE

\* the same test, made again once the lock is held
CachesResolvedUnderLock == g_link_mode_names # 0 /\ g_feature_names # 0

\* an exception leaves the call the thread is in
RaiseOut(t, what) ==
    /\ t_pc' = [t_pc EXCEPT ![t] = "idle"]
    /\ t_call' = [t_call EXCEPT ![t] = "none"]
    /\ t_tables' = [t_tables EXCEPT ![t] = <<0, 0>>]
    /\ h_last' = Raised(t_call[t], t, what)

\* _ensure_global_caches returns the two globals as they are now
EnsureReturn(t) ==
    LET pair == <<g_link_mode_names, g_feature_names>>
    IN  /\ g_returned' = g_returned \cup {pair}
        /\ IF t_call[t] = "get_ethtool"
           THEN /\ t_pc' = [t_pc EXCEPT ![t] = "connect"]
                /\ t_tables' = [t_tables EXCEPT ![t] = pair]
                /\ h_last' = NoReturn
                /\ UNCHANGED t_call
           ELSE /\ t_pc' = [t_pc EXCEPT ![t] = "idle"]
                /\ t_call' = [t_call EXCEPT ![t] = "none"]
                /\ h_last' = Done("_ensure_global_caches", t)
                /\ UNCHANGED t_tables

Check(t) ==
    /\ t_pc[t] = "check"
    /\ IF CachesResolved
       THEN t_pc' = [t_pc EXCEPT ![t] = "return"]
       ELSE t_pc' = [t_pc EXCEPT ![t] = "acquire"]
    /\ h_last' = NoReturn
    /\ UNCHANGED <<h_sock, h_names, h_ctx, g_link_mode_names, g_feature_names,
                   g_lock, g_made, g_faults, g_queries, g_returned, t_call,
                   t_tables>>
    /\ HandleFrame

Return(t) ==
    /\ t_pc[t] = "return"
    /\ EnsureReturn(t)
    /\ UNCHANGED <<h_sock, h_names, h_ctx, g_link_mode_names, g_feature_names,
                   g_lock, g_made, g_faults, g_queries>>
    /\ HandleFrame

\* with _cache_init_lock:
Acquire(t) ==
    /\ t_pc[t] = "acquire"
    /\ g_lock = "free"
    /\ g_lock' = t
    /\ t_pc' = [t_pc EXCEPT ![t] = "check_locked"]
    /\ h_last' = NoReturn
    /\ UNCHANGED <<h_sock, h_names, h_ctx, g_link_mode_names, g_feature_names,
                   g_made, g_faults, g_queries, g_returned, t_call, t_tables>>
    /\ HandleFrame

CheckLocked(t) ==
    /\ t_pc[t] = "check_locked"
    /\ t_pc' = [t_pc EXCEPT ![t] =
           IF CachesResolvedUnderLock THEN "return_locked" ELSE "enter"]
    /\ h_last' = NoReturn
    /\ UNCHANGED <<h_sock, h_names, h_ctx, g_link_mode_names, g_feature_names,
                   g_lock, g_made, g_faults, g_queries, g_returned, t_call,
                   t_tables>>
    /\ HandleFrame

\* a transport fault inside the locked block: the exception releases the lock
\* on its way out
FaultUnderLock(t, what) ==
    /\ g_faults < MaxFaults
    /\ g_faults' = g_faults + 1
    /\ g_lock' = "free"
    /\ RaiseOut(t, what)

\* with EthtoolNetlink() as eth: the handle of the population connects
Enter(t) ==
    /\ t_pc[t] = "enter"
    /\ \/ /\ t_pc' = [t_pc EXCEPT ![t] = "link_modes"]
          /\ h_last' = NoReturn
          /\ UNCHANGED <<g_lock, g_faults, t_call, t_tables>>
       \/ FaultUnderLock(t, "OSError")
    /\ UNCHANGED <<h_sock, h_names, h_ctx, g_link_mode_names, g_feature_names,
                   g_made, g_queries, g_returned>>
    /\ HandleFrame

\* _link_mode_names = MappingProxyType(eth._query_string_set(EthSS.LINK_MODES))
QueryLinkModes(t) ==
    /\ t_pc[t] = "link_modes"
    /\ \/ /\ g_made' = g_made + 1
          /\ g_link_mode_names' = g_made + 1
          /\ g_queries' = [g_queries EXCEPT !.link_modes = @ + 1]
          /\ t_pc' = [t_pc EXCEPT ![t] = "features"]
          /\ h_last' = NoReturn
          /\ UNCHANGED <<g_lock, g_faults, t_call, t_tables>>
       \/ /\ FaultUnderLock(t, "NetlinkError")
          /\ UNCHANGED <<g_made, g_link_mode_names, g_queries>>
    /\ UNCHANGED <<h_sock, h_names, h_ctx, g_feature_names, g_returned>>
    /\ HandleFrame

\* _feature_names = MappingProxyType(eth._query_string_set(EthSS.FEATURES))
QueryFeatures(t) ==
    /\ t_pc[t] = "features"
    /\ \/ /\ g_made' = g_made + 1
          /\ g_feature_names' = g_made + 1
          /\ g_queries' = [g_queries EXCEPT !.features = @ + 1]
          /\ t_pc' = [t_pc EXCEPT ![t] = "return_locked"]
          /\ h_last' = NoReturn
          /\ UNCHANGED <<g_lock, g_faults, t_call, t_tables>>
       \/ /\ FaultUnderLock(t, "NetlinkError")
          /\ UNCHANGED <<g_made, g_feature_names, g_queries>>
    /\ UNCHANGED <<h_sock, h_names, h_ctx, g_link_mode_names, g_returned>>
    /\ HandleFrame

\* the return inside the locked block, which releases the lock
ReturnLocked(t) ==
    /\ t_pc[t] = "return_locked"
    /\ g_lock' = "free"
    /\ EnsureReturn(t)
    /\ UNCHANGED <<h_sock, h_names, h_ctx, g_link_mode_names, g_feature_names,
                   g_made, g_faults, g_queries>>
    /\ HandleFrame

\* the rest of get_ethtool: a new handle connects, takes the tables and
\* becomes the context's handle
Connect(t) ==
    /\ t_pc[t] = "connect"
    /\ \/ /\ AbsentHandles # {}
          /\ h_sock' = [h_sock EXCEPT ![NewHandle] = "open"]
          /\ h_names' = [h_names EXCEPT ![NewHandle] = t_tables[t]]
          /\ h_ctx' = [h_ctx EXCEPT ![t].ethtool = NewHandle]
          /\ t_pc' = [t_pc EXCEPT ![t] = "idle"]
          /\ t_call' = [t_call EXCEPT ![t] = "none"]
          /\ t_tables' = [t_tables EXCEPT ![t] = <<0, 0>>]
          /\ h_last' = Returned("get_ethtool", t, NewHandle)
          /\ UNCHANGED g_faults
       \/ /\ g_faults < MaxFaults
          /\ g_faults' = g_faults + 1
          /\ RaiseOut(t, "NetlinkError")
          /\ UNCHANGED <<h_sock, h_names, h_ctx>>
    /\ UNCHANGED <<g_link_mode_names, g_feature_names, g_lock, g_made, g_queries,
                   g_returned>>
    /\ HandleFrame

\* _address_ctx is a context variable and nothing get_address_netlink touches
\* is shared between threads: one thread's context stands for all
MainThread == "t1"

NextHandles ==
    \E t \in Threads :
        \/ t = MainThread /\ GetAddressNetlink(t)
        \/ t = MainThread /\ CloseAddressNetlink(t)
        \/ CloseEthtool(t)
        \/ \E pool \in Pools : HandleClose(t, pool)
        \/ \E pool \in Pools : SocketClose(t, pool)
        \/ \E pool \in Pools : SocketBreak(t, pool)
        \/ GetEthtool(t)
        \/ EnsureGlobalCaches(t)
        \/ Check(t)
        \/ Return(t)
        \/ Acquire(t)
        \/ CheckLocked(t)
        \/ Enter(t)
        \/ QueryLinkModes(t)
        \/ QueryFeatures(t)
        \/ ReturnLocked(t)
        \/ Connect(t)

SpecHandles == Init /\ [][NextHandles]_vars

----------------------------------------------------------------------------
(* Library calls made one after another on one socket.  The socket is the   *)
(* queue of datagrams the kernel has written and the program has not read;  *)
(* the kernel answers each request the program sends by appending datagrams. *)

RTMType_DELROUTE == 25

RTProtocol_KERNEL == 2
RTProtocol_BOOT == 3
RTProtocol_STATIC == 4

RTScope_UNIVERSE == 0
RTScope_LINK == 253

RTNType_UNICAST == 1
RTNType_BLACKHOLE == 6
RTNType_UNREACHABLE == 7
RTNType_PROHIBIT == 8

RTTable_UNSPEC == 0

RTEXTFilter_VF == 1
RTEXTFilter_SKIP_STATS == 8

ESRCH == 3

Max(a, b) == IF a >= b THEN a ELSE b

Drop(queue, n) == SubSeq(queue, n + 1, Len(queue))

\* sock.send(msg) followed by recv_msgs(sock): the kernel's answer is queued
\* behind whatever was still unread, and recv_msgs reads from the front
Exchange(queue, answer) ==
    CHOOSE x \in
        {[kind |-> r.kind, exc |-> r.exc, messages |-> r.messages,
          rest |-> Drop(queue \o answer, r.used)]
            : r \in {recv_msgs(queue \o answer)}} : TRUE

\* the request of get_links
GetLinksRequest ==
    pack_nlmsg(RTMType_GETLINK, NLM_F_REQUEST + NLM_F_DUMP,
               ifinfomsg(AF_UNSPEC, 0, 0, 0, 0)
                   \o pack_nlattr_u32(IFLA_EXT_MASK,
                          BitOr(RTEXTFilter_VF, RTEXTFilter_SKIP_STATS)), 1)

\* the loop of get_links over the messages: links[ifname] = link_info
RECURSIVE CollectLinks(_, _, _)
CollectLinks(messages, i, links) ==
    IF i > Len(messages) THEN [kind |-> "returned", exc |-> NoExc, result |-> links]
    ELSE IF messages[i][1] # RTMType_NEWLINK THEN CollectLinks(messages, i + 1, links)
    ELSE CHOOSE c \in
        {IF d.kind = "raise"
         THEN [kind |-> "raised", exc |-> Exc(d.rec, NoErrno), result |-> <<>>]
         ELSE IF d.kind = "skip" THEN CollectLinks(messages, i + 1, links)
         ELSE CollectLinks(messages, i + 1, DictSet(links, d.rec[1], d.rec[2]))
            : d \in {ParseLinkPayload(messages[i][2])}} : TRUE

\* the request of get_routes(sock, table=table)
GetRoutesRequest(table) ==
    pack_nlmsg(RTMType_GETROUTE, NLM_F_REQUEST + NLM_F_DUMP,
               rtmsg(AF_UNSPEC, 0, RTTable_UNSPEC, 0, RTScope_UNIVERSE, 0, 0)
                   \o pack_nlattr_u32(RTA_TABLE, table), 1)

\* the loop of get_routes over the messages: routes.append(route_info)
RECURSIVE CollectRoutes(_, _, _)
CollectRoutes(messages, i, routes) ==
    IF i > Len(messages) THEN routes
    ELSE IF messages[i][1] # RTMType_NEWROUTE THEN CollectRoutes(messages, i + 1, routes)
    ELSE CHOOSE c \in
        {IF d.kind = "record" THEN CollectRoutes(messages, i + 1, Append(routes, d.rec))
         ELSE CollectRoutes(messages, i + 1, routes)
            : d \in {ParseRoutePayload(messages[i][2])}} : TRUE

\* get_routes(sock, table=table) as a function of the socket and the kernel's
\* answer
get_routes(queue, answer, table) ==
    CHOOSE g \in
        {[kind |-> x.kind, exc |-> x.exc, rest |-> x.rest,
          result |-> IF x.kind = "returned" THEN CollectRoutes(x.messages, 1, <<>>)
                     ELSE <<>>]
            : x \in {Exchange(queue, answer)}} : TRUE

\* _build_route_msg(dst, dst_len, gateway, index=, table=, protocol=, scope=,
\* route_type=) with name, prefsrc and priority None; an address is its bytes
BuildRouteMsg(a) ==
    LET first_addr == IF a.dst.some THEN a.dst ELSE a.gateway
        family == IF Len(first_addr.val) = 4 THEN AF_INET ELSE AF_INET6
        scope == IF a.scope.some THEN a.scope.val
                 ELSE IF a.route_type \in {RTNType_BLACKHOLE, RTNType_UNREACHABLE,
                                           RTNType_PROHIBIT}
                 THEN RTScope_UNIVERSE
                 ELSE IF a.gateway.some THEN RTScope_UNIVERSE
                 ELSE RTScope_LINK
    IN  IF ~first_addr.some THEN Raise("ValueError")
        ELSE Record(
            rtmsg(family, a.dst_len, RTTable_UNSPEC, a.protocol, scope,
                  a.route_type, 0)
            \o (IF a.dst.some THEN pack_nlattr(RTA_DST, a.dst.val) ELSE <<>>)
            \o (IF a.gateway.some THEN pack_nlattr(RTA_GATEWAY, a.gateway.val)
                ELSE <<>>)
            \o (IF a.index.some THEN pack_nlattr_u32(RTA_OIF, a.index.val) ELSE <<>>)
            \o pack_nlattr_u32(RTA_TABLE, a.table))

\* add_route and delete_route: build, send, recv_msgs, and the except clause
\* that renames the NetlinkError carrying `code`
RouteCall(queue, answer, a, msg_type, flags, code, renamed) ==
    LET b == BuildRouteMsg(a) IN
    IF b.kind = "raise"
    THEN [kind |-> "raised", exc |-> Exc(b.rec, NoErrno), rest |-> queue,
          sent |-> <<>>, unread |-> 0]
    ELSE CHOOSE r \in
        {[kind |-> x.kind,
          exc |-> IF x.kind = "raised" /\ x.exc.errno = code
                  THEN Exc(renamed, code) ELSE x.exc,
          rest |-> x.rest,
          sent |-> <<pack_nlmsg(msg_type, flags, b.rec, 1)>>,
          unread |-> Len(queue)]
            : x \in {Exchange(queue, answer)}} : TRUE

add_route(queue, answer, a) ==
    RouteCall(queue, answer, a, RTMType_NEWROUTE,
              NLM_F_REQUEST + NLM_F_ACK + NLM_F_CREATE + NLM_F_EXCL,
              EEXIST, "RouteAlreadyExists")

delete_route(queue, answer, a) ==
    RouteCall(queue, answer, a, RTMType_DELROUTE, NLM_F_REQUEST + NLM_F_ACK,
              ESRCH, "RouteDoesNotExist")

\* the arguments flush_routes passes to delete_route for a route of the dump
FlushArgs(route, table) ==
    [dst |-> route.dst, dst_len |-> route.dst_len, gateway |-> route.gateway,
     index |-> route.oif, table |-> table, protocol |-> RTProtocol_STATIC,
     scope |-> Some(route.scope), route_type |-> RTNType_UNICAST]

\* the loop of flush_routes: KERNEL routes are passed over, every exception
\* of delete_route is swallowed; a delete_route stuck in recv never comes back
\* log keeps, for each delete_route made, the exception it ended with
RECURSIVE FlushLoop(_, _, _, _, _, _, _, _)
FlushLoop(routes, i, table, queue, answers, sent, unread, log) ==
    IF i > Len(routes)
    THEN [kind |-> "returned", rest |-> queue, sent |-> sent, unread |-> unread,
          log |-> log]
    ELSE IF routes[i].protocol = RTProtocol_KERNEL
    THEN FlushLoop(routes, i + 1, table, queue, answers, sent, unread, log)
    ELSE CHOOSE f \in
        {IF d.kind = "blocked"
         THEN [kind |-> "blocked", rest |-> d.rest, sent |-> sent \o d.sent,
               unread |-> Max(unread, d.unread), log |-> log]
         ELSE FlushLoop(routes, i + 1, table, d.rest, answers, sent \o d.sent,
                        Max(unread, d.unread), Append(log, d.exc.type))
            : d \in {delete_route(queue, answers[i], FlushArgs(routes[i], table))}}
        : TRUE

\* --- what the kernel sends ---

LinkLo ==
    KMsg(RTMType_NEWLINK, MULTI,
         ifinfomsg(AF_UNSPEC, 772, 1, 65609, 0)
             \o pack_nlattr(IFLA_IFNAME, Name_lo)
             \o pack_nlattr(IFLA_MTU, PackU32(65536))
             \o pack_nlattr(IFLA_OPERSTATE, <<6>>))

\* b"eth0\x00"
Name_eth0 == <<101, 116, 104, 48, 0>>

\* an interface with no optional attribute
LinkEth0 ==
    KMsg(RTMType_NEWLINK, MULTI,
         ifinfomsg(AF_UNSPEC, 1, 2, 4099, 0) \o pack_nlattr(IFLA_IFNAME, Name_eth0))

\* lo again, changed
LinkLoAgain ==
    KMsg(RTMType_NEWLINK, MULTI,
         ifinfomsg(AF_UNSPEC, 772, 1, 8, 0)
             \o pack_nlattr(IFLA_IFNAME, Name_lo)
             \o pack_nlattr(IFLA_MTU, PackU32(1500))
             \o pack_nlattr(IFLA_ADDRESS, Zeros(6)))

LinkShort == KMsg(RTMType_NEWLINK, MULTI, Zeros(12))

LinkNoName ==
    KMsg(RTMType_NEWLINK, MULTI,
         ifinfomsg(AF_UNSPEC, 1, 3, 0, 0) \o pack_nlattr(IFLA_MTU, PackU32(9000)))

LinkOtherType ==
    KMsg(RTMType_NEWADDR, MULTI,
         ifinfomsg(AF_UNSPEC, 1, 4, 0, 0) \o pack_nlattr(IFLA_IFNAME, Name_eth0))

\* a record with a name whose IFLA_OPERSTATE attribute has no payload
LinkEmptyOperstate ==
    KMsg(RTMType_NEWLINK, MULTI,
         ifinfomsg(AF_UNSPEC, 1, 2, 0, 0)
             \o pack_nlattr(IFLA_IFNAME, Name_eth0)
             \o pack_nlattr(IFLA_OPERSTATE, <<>>))

Done_ == KMsg(NLMsgType_DONE, MULTI, PackI32(0))

Interrupted(m) == [m EXCEPT !.flags = BitOr(m.flags, DUMP_INTR)]

\* the answers to a GETLINK dump: each is the sequence of datagrams
LinkDumps ==
    {<<KernelFrames(<<LinkLo, Done_>>)>>,
     <<KernelFrame(LinkLo), KernelFrames(<<LinkEth0, LinkLoAgain>>),
       KernelFrame(Done_)>>,
     <<KernelFrames(<<LinkShort, LinkNoName, LinkOtherType, LinkEth0>>),
       KernelFrame(Done_)>>,
     <<KernelFrames(<<LinkLo, LinkEmptyOperstate>>), KernelFrame(Done_)>>,
     <<KernelFrame(Interrupted(LinkLo)), KernelFrame(Done_)>>}

RouteStatic ==
    KMsg(RTMType_NEWROUTE, MULTI,
         rtmsg(AF_INET, 8, 254, RTProtocol_STATIC, RTScope_UNIVERSE,
               RTNType_UNICAST, 0)
             \o pack_nlattr(RTA_DST, <<10, 0, 0, 0>>)
             \o pack_nlattr(RTA_GATEWAY, <<192, 168, 1, 1>>)
             \o pack_nlattr(RTA_OIF, PackU32(2)))

RouteKernel ==
    KMsg(RTMType_NEWROUTE, MULTI,
         rtmsg(AF_INET, 24, 254, RTProtocol_KERNEL, RTScope_LINK,
               RTNType_UNICAST, 0)
             \o pack_nlattr(RTA_DST, <<192, 168, 1, 0>>)
             \o pack_nlattr(RTA_OIF, PackU32(2)))

\* default dev eth0: a route with neither RTA_DST nor RTA_GATEWAY
RouteDevice ==
    KMsg(RTMType_NEWROUTE, MULTI,
         rtmsg(AF_INET, 0, 254, RTProtocol_BOOT, RTScope_LINK, RTNType_UNICAST, 0)
             \o pack_nlattr(RTA_OIF, PackU32(2)))

\* the answers to a GETROUTE dump
RouteDumps ==
    {<<KernelFrames(<<RouteStatic, RouteKernel>>), KernelFrame(Done_)>>,
     <<KernelFrames(<<RouteKernel, RouteDevice, RouteStatic>>), KernelFrame(Done_)>>,
     <<KernelFrame(Interrupted(RouteStatic)), KernelFrame(Done_)>>,
     <<ErrDatagram(EOPNOTSUPP)>>}

\* the answers to a request that asks for an acknowledgement
AckAnswers == {<<AckDatagram>>} \cup {<<ErrDatagram(c)>> : c \in {EEXIST, ESRCH, ENODEV, EOPNOTSUPP}}

\* the answers to the deletes of flush_routes
DeleteAnswers == {<<AckDatagram>>, <<ErrDatagram(ESRCH)>>, <<ErrDatagram(ENODEV)>>}

\* the routes the caller names
RouteArgs ==
    {[dst |-> Some(<<10, 0, 0, 0>>), dst_len |-> 8,
      gateway |-> Some(<<192, 168, 1, 1>>), index |-> NoneInt,
      table |-> RT_TABLE_MAIN, protocol |-> RTProtocol_STATIC, scope |-> NoneInt,
      route_type |-> RTNType_UNICAST],
     [dst |-> NoneStr, dst_len |-> 0, gateway |-> NoneStr, index |-> Some(2),
      table |-> RT_TABLE_MAIN, protocol |-> RTProtocol_STATIC, scope |-> NoneInt,
      route_type |-> RTNType_UNICAST]}

MaxCalls == 3

MaxRoutes == 3

\* --- the calls ---

CallMade(op, kind, exc, result, answer, unread, sent, rest, log) ==
    /\ s_calls < MaxCalls
    /\ s_last.kind # "blocked"
    /\ s_calls' = s_calls + 1
    /\ s_queue' = rest
    /\ s_last' = [op |-> op, kind |-> kind, exc |-> exc, result |-> result,
                  answer |-> answer, unread |-> unread, sent |-> sent,
                  log |-> log]
    /\ SessionFrame

\* get_links(sock)
GetLinks ==
    \E answer \in LinkDumps :
        \E x \in {Exchange(s_queue, answer)} :
            \E c \in {IF x.kind = "returned"
                       THEN CollectLinks(x.messages, 1, EmptyDict)
                       ELSE [kind |-> x.kind, exc |-> x.exc, result |-> <<>>]} :
                CallMade("get_links", c.kind, c.exc, c.result, answer,
                         Len(s_queue), <<GetLinksRequest>>, x.rest, <<>>)

\* get_routes(sock)
GetRoutes_ ==
    \E answer \in RouteDumps :
        \E g \in {get_routes(s_queue, answer, RT_TABLE_MAIN)} :
            CallMade("get_routes", g.kind, g.exc, g.result, answer, Len(s_queue),
                     <<GetRoutesRequest(RT_TABLE_MAIN)>>, g.rest, <<>>)

\* add_route(sock, dst, dst_len, gateway, index=index)
AddRoute ==
    \E a \in RouteArgs, answer \in AckAnswers :
        \E r \in {add_route(s_queue, answer, a)} :
            CallMade("add_route", r.kind, r.exc, <<>>,
                     IF r.sent = <<>> THEN <<>> ELSE answer, r.unread, r.sent, r.rest,
                     <<>>)

\* delete_route(sock, dst, dst_len, gateway, index=index)
DeleteRoute ==
    \E a \in RouteArgs, answer \in AckAnswers :
        \E r \in {delete_route(s_queue, answer, a)} :
            CallMade("delete_route", r.kind, r.exc, <<>>,
                     IF r.sent = <<>> THEN <<>> ELSE answer, r.unread, r.sent, r.rest,
                     <<>>)

\* flush_routes(sock, table): result keeps the routes the dump returned
FlushRoutes ==
    \E answer \in RouteDumps, answers \in [1..MaxRoutes -> DeleteAnswers] :
        \E g \in {get_routes(s_queue, answer, RT_TABLE_MAIN)} :
            IF g.kind # "returned"
            THEN CallMade("flush_routes", g.kind, g.exc, <<>>, answer,
                          Len(s_queue), <<GetRoutesRequest(RT_TABLE_MAIN)>>, g.rest,
                          <<>>)
            ELSE \E f \in {FlushLoop(g.result, 1, RT_TABLE_MAIN, g.rest, answers,
                                      <<GetRoutesRequest(RT_TABLE_MAIN)>>,
                                      Len(s_queue), <<>>)} :
                    CallMade("flush_routes", f.kind, NoExc, g.result, answer,
                             f.unread, f.sent, f.rest, f.log)

NextSession ==
    \/ GetLinks
    \/ GetRoutes_
    \/ AddRoute
    \/ DeleteRoute
    \/ FlushRoutes

SpecSession == Init /\ [][NextSession]_vars

----------------------------------------------------------------------------
(* Properties of the decoders *)

\* C11: whatever the payload, a decoder returns a record or skips the message;
\* no exception leaves it.
C11_DecodersNeverRaise == d_out.kind # "raise"

\* the IFA_CACHEINFO attribute of the payload handed to the address decoder,
\* <<>> when there is none
CacheInfoOf(payload) ==
    IF Len(payload) < 8 THEN <<>>
    ELSE LET attrs == parse_attrs(payload, 8) IN
         IF IFA_CACHEINFO \in DOMAIN attrs THEN attrs[IFA_CACHEINFO] ELSE <<>>

\* the value of the little-endian u32 at byte offset off, as two 16-bit halves
WordAt(b, off) ==
    [lo |-> b[off + 1] + 256 * b[off + 2], hi |-> b[off + 3] + 256 * b[off + 4]]

\* what the claim expects of a lifetime word: no expiry for 0xFFFFFFFF, else
\* the integer
ExpectedLifetime(w) ==
    IF w = [lo |-> 65535, hi |-> 65535] THEN [some |-> FALSE, val |-> [lo |-> 0, hi |-> 0]]
    ELSE [some |-> TRUE, val |-> w]

\* C13: when an address record is decoded from a payload whose IFA_CACHEINFO
\* attribute has at least 8 bytes, preferred_lft comes from the first u32 and
\* valid_lft from the second, each on its own: None exactly when the word is
\* 0xFFFFFFFF, else the word's value; 0xFFFFFFFF itself is never returned.
C13_LifetimeSentinel ==
    (d_decoder = "address" /\ d_out.kind = "record"
        /\ Len(CacheInfoOf(d_payload)) >= 8) =>
        LET c == CacheInfoOf(d_payload) IN
        /\ d_out.rec.preferred_lft = ExpectedLifetime(WordAt(c, 0))
        /\ d_out.rec.valid_lft = ExpectedLifetime(WordAt(c, 4))
        /\ d_out.rec.preferred_lft # [some |-> TRUE, val |-> [lo |-> 65535, hi |-> 65535]]
        /\ d_out.rec.valid_lft # [some |-> TRUE, val |-> [lo |-> 65535, hi |-> 65535]]

C13_Witness ==
    /\ d_decoder = "address"
    /\ d_out.kind = "record"
    /\ Len(CacheInfoOf(d_payload)) = 16
    /\ WordAt(CacheInfoOf(d_payload), 0) = [lo |-> 65535, hi |-> 32767]
    /\ WordAt(CacheInfoOf(d_payload), 4) = [lo |-> 65535, hi |-> 65535]
    /\ d_out.rec.preferred_lft = [some |-> TRUE, val |-> [lo |-> 65535, hi |-> 32767]]
    /\ d_out.rec.valid_lft = [some |-> FALSE, val |-> [lo |-> 0, hi |-> 0]]

----------------------------------------------------------------------------
(* Properties of add_address *)

\* the attributes of the request add_address sent
SentAttrs == parse_attrs(Slice(b_sent, 16, Len(b_sent)), 8)

\* bit j (0 is the least significant) of byte value v
BitOf(v, j) == (v \div Pow2(j)) % 2

\* the address with its low 32 - prefixlen bits set to 1: bit j of byte k is
\* bit 8 * (4 - k) + j of the address
HighestOfNetwork(address, prefixlen) ==
    [k \in 1..4 |->
        LET b(j) == IF 8 * (4 - k) + j < 32 - prefixlen THEN 1 ELSE BitOf(address[k], j)
        IN  b(0) + 2 * b(1) + 4 * b(2) + 8 * b(3) + 16 * b(4) + 32 * b(5)
                + 64 * b(6) + 128 * b(7)]

\* C14: the request add_address builds for an IPv4 address without an explicit
\* broadcast carries, as IFA_BROADCAST, the address with its low 32 - prefixlen
\* bits set; an explicit broadcast is sent as given; a request for an IPv6
\* address has no IFA_BROADCAST.
C14_Broadcast ==
    b_pc # "idle" =>
        IF Len(b_args.address) = 4
        THEN /\ IFA_BROADCAST \in DOMAIN SentAttrs
             /\ SentAttrs[IFA_BROADCAST] =
                   IF b_args.broadcast.some THEN b_args.broadcast.val
                   ELSE HighestOfNetwork(b_args.address, b_args.prefixlen)
        ELSE IFA_BROADCAST \notin DOMAIN SentAttrs

C14_Witness ==
    /\ b_pc = "returned"
    /\ b_args.address = <<192, 168, 1, 10>>
    /\ b_args.prefixlen = 24
    /\ ~b_args.broadcast.some
    /\ SentAttrs[IFA_BROADCAST] = <<192, 168, 1, 255>>

----------------------------------------------------------------------------
(* Properties of the pooled handles *)

\* the handle of thread t's pool as the caller would judge it: there is one and
\* its socket is open and bound
ValidHandle(h) == h # 0 /\ h_sock[h] = "open"

GetReturns(op, t) ==
    h_last'.op = op /\ h_last'.kind = "returned" /\ h_last'.thread = t

\* what a returning get call must have done to pool `pool` of thread t
PooledGetPost(t, pool, prev) ==
    LET h == h_last'.handle
    IN  /\ h # 0
        /\ h_sock'[h] = "open"
        /\ h_ctx'[t][pool] = h
        /\ IF ValidHandle(prev)
           THEN h = prev /\ h_sock' = h_sock /\ h_names' = h_names
           ELSE h # prev /\ h_sock[h] = "absent"

\* C15: a get_address_netlink() that returns hands out a handle whose socket is
\* open and makes it the context's handle: the handle the context held, left as
\* it was, when that one's socket is valid; a handle that did not exist before
\* when the context held none or one whose socket is None, closed or broken.
\* get_ethtool() does the same: it returns at once only with a valid handle,
\* goes on to reconnect only without one, and what the reconnection returns is
\* a new open handle stored in the context.
C15_PooledHandle ==
    [][\A t \in Threads :
          /\ GetReturns("get_address_netlink", t)
                => PooledGetPost(t, "address", h_ctx[t].address)
          /\ (GetReturns("get_ethtool", t) /\ t_pc[t] = "idle")
                => /\ ValidHandle(h_ctx[t].ethtool)
                   /\ PooledGetPost(t, "ethtool", h_ctx[t].ethtool)
          /\ (t_pc[t] = "idle" /\ t_pc'[t] = "check" /\ t_call'[t] = "get_ethtool")
                => ~ValidHandle(h_ctx[t].ethtool)
          /\ (GetReturns("get_ethtool", t) /\ t_pc[t] = "connect")
                => /\ ~ValidHandle(h_ctx[t].ethtool)
                   /\ PooledGetPost(t, "ethtool", h_ctx[t].ethtool)
      ]_vars

\* get_address_netlink() has replaced a handle whose socket went bad, and
\* get_ethtool() had handed the same thread a handle before
C15_Witness ==
    /\ h_last = Returned("get_address_netlink", MainThread, 3)
    /\ h_sock[1] = "broken"
    /\ h_ctx[MainThread].ethtool = 2
    /\ h_sock[2] = "open"
    /\ h_sock[3] = "open"

----------------------------------------------------------------------------
(* Properties of the process-wide name tables *)

\* the threads inside the block that _cache_init_lock guards
Populating ==
    {t \in Threads :
        t_pc[t] \in {"check_locked", "enter", "link_modes", "features",
                     "return_locked"}}

\* C16: whatever the interleaving of the threads that find the tables unset,
\* at most one thread at a time is inside the locked block; the population is
\* completed at most once, and exactly once when the tables are resolved; in a
\* process without transport faults that is one LINK_MODES query and one
\* FEATURES query; and every pair _ensure_global_caches has returned, and
\* every pair a handle was given, is the pair of table objects the globals hold.
C16_ResolvedOnce ==
    /\ Cardinality(Populating) <= 1
    /\ \A t \in Populating : g_lock = t
    /\ g_queries.features <= 1
    /\ CachesResolved => g_queries.features = 1
    /\ g_faults = 0 => g_queries.link_modes <= 1
    /\ (g_faults = 0 /\ CachesResolved) => g_queries.link_modes = 1
    /\ \A pair \in g_returned :
          /\ pair[1] # 0
          /\ pair[2] # 0
          /\ pair = <<g_link_mode_names, g_feature_names>>
    /\ \A h \in Handles :
          h_names[h] \in {<<0, 0>>, <<g_link_mode_names, g_feature_names>>}

\* both threads found the tables unset; t1 has populated them and returned
\* from _ensure_global_caches, t2 holds the lock and is about to test again
C16_Witness ==
    /\ t_pc["t1"] = "connect"
    /\ t_tables["t1"] = <<1, 2>>
    /\ t_pc["t2"] = "check_locked"
    /\ g_returned = {<<1, 2>>}
    /\ g_queries = [link_modes |-> 1, features |-> 1]

\* C17: once a global name table has been assigned, that global keeps the same
\* table object for the rest of the process.
C17_WriteOnce ==
    [][/\ g_link_mode_names # 0 => g_link_mode_names' = g_link_mode_names
       /\ g_feature_names # 0 => g_feature_names' = g_feature_names]_vars

----------------------------------------------------------------------------
(* Properties of the calls made on one socket *)

\* the answer is a dump that recv_msgs, reading it alone, takes to its end
CleanDump(answer) == recv_msgs(answer).kind = "returned"

DumpMessages(answer) == recv_msgs(answer).messages

\* the interface name a NEWLINK record carries, <<>> when it carries none
LinkName(m) ==
    LET attrs == parse_attrs(m[2], 16) IN
    IF Has(attrs, IFLA_IFNAME) THEN RStripNul(attrs[IFLA_IFNAME]) ELSE <<>>

\* a valid NEWLINK record: of that type, at least 16 bytes, a non-empty name
ValidLink(m) ==
    m[1] = RTMType_NEWLINK /\ Len(m[2]) >= 16 /\ LinkName(m) # <<>>

\* C12: on a socket with nothing unread, get_links given a dump that ends with
\* DONE returns a map whose keys are the names of the valid NEWLINK records of
\* the dump, each entry holding the fields of the last record of that name;
\* lo sent with MTU 65536 and OPERSTATE 6 has mtu 65536 and operstate 6, and an
\* interface sent with its name only has mtu 0, operstate 0, no address, one
\* queue each way and no altnames.
C12_LinkMap ==
    (s_last.op = "get_links" /\ s_last.unread = 0 /\ CleanDump(s_last.answer)) =>
        LET ms == DumpMessages(s_last.answer)
            valid == {i \in DOMAIN ms : ValidLink(ms[i])}
            links == s_last.result
        IN  /\ s_last.kind = "returned"
            /\ DOMAIN links = {LinkName(ms[i]) : i \in valid}
            /\ \A i \in valid :
                  (\A j \in valid : LinkName(ms[j]) = LinkName(ms[i]) => j <= i)
                     => /\ ParseLinkPayload(ms[i][2]).kind = "record"
                        /\ links[LinkName(ms[i])] = ParseLinkPayload(ms[i][2]).rec[2]
            /\ s_last.answer = <<KernelFrames(<<LinkLo, Done_>>)>>
                  => /\ DOMAIN links = {<<108, 111>>}
                     /\ links[<<108, 111>>].mtu = 65536
                     /\ links[<<108, 111>>].operstate = 6
            /\ \A i \in valid :
                  ms[i][2] = LinkEth0.body
                     => LET l == links[LinkName(ms[i])]
                        IN  /\ l.mtu = 0
                            /\ l.operstate = 0
                            /\ ~l.address.some
                            /\ l.num_tx_queues = 1
                            /\ l.num_rx_queues = 1
                            /\ l.altnames = <<>>

\* C18: whenever a call sends a request, nothing is unread on the socket.
C18_NothingUnreadAtSend == s_last.unread = 0

\* the DELROUTE requests among what a call sent
DeletesSent(sent) == {i \in DOMAIN sent : UnpackU16(sent[i], 4) = RTMType_DELROUTE}

\* C19: on a socket with nothing unread, flush_routes whose dump ends with DONE
\* returns, having sent after the dump request one DELROUTE for each route of
\* the dump that is not KERNEL and nothing else; when the dump raises, that
\* exception is what leaves flush_routes.
C19_FlushDeletesAll ==
    (s_last.op = "flush_routes" /\ s_last.unread = 0) =>
        IF CleanDump(s_last.answer)
        THEN /\ s_last.kind = "returned"
             /\ Cardinality(DeletesSent(s_last.sent))
                   = Cardinality({i \in DOMAIN s_last.result :
                                     s_last.result[i].protocol # RTProtocol_KERNEL})
             /\ Len(s_last.sent) = 1 + Cardinality(DeletesSent(s_last.sent))
        ELSE /\ s_last.kind = "raised"
             /\ s_last.exc = recv_msgs(s_last.answer).exc

\* the exception recv_msgs raises for the kernel error `code`
RecvFault(code) ==
    IF code = ENODEV THEN Exc("DeviceNotFound", NoErrno)
    ELSE IF code = EOPNOTSUPP THEN Exc("OperationNotSupported", NoErrno)
    ELSE Exc("NetlinkError", code)

\* what a route call must end with when the kernel answers `answer`
RouteOutcome(answer, code, renamed) ==
    IF answer = <<AckDatagram>> THEN s_last.kind = "returned"
    ELSE /\ s_last.kind = "raised"
         /\ \A c \in {EEXIST, ESRCH, ENODEV, EOPNOTSUPP} :
               answer = <<ErrDatagram(c)>> =>
                   s_last.exc = IF c = code THEN Exc(renamed, code) ELSE RecvFault(c)

\* C20: add_route ends with RouteAlreadyExists exactly when the kernel's answer
\* to its request is the error EEXIST, delete_route with RouteDoesNotExist
\* exactly when it is ESRCH; any other kernel error reaches the caller as
\* recv_msgs raised it, and an acknowledgement lets the call return.
C20_RouteErrors ==
    /\ (s_last.op = "add_route" /\ s_last.sent # <<>>) =>
          /\ s_last.exc.type = "RouteAlreadyExists"
                <=> s_last.answer = <<ErrDatagram(EEXIST)>>
          /\ RouteOutcome(s_last.answer, EEXIST, "RouteAlreadyExists")
    /\ (s_last.op = "delete_route" /\ s_last.sent # <<>>) =>
          /\ s_last.exc.type = "RouteDoesNotExist"
                <=> s_last.answer = <<ErrDatagram(ESRCH)>>
          /\ RouteOutcome(s_last.answer, ESRCH, "RouteDoesNotExist")

\* the same, for the calls made when nothing was unread on the socket
RouteErrorsOnCleanSocket == s_last.unread = 0 => C20_RouteErrors

----------------------------------------------------------------------------
(* address/ipv6.py: ipv6_netmask_to_prefixlen.  The netmask is the 128-bit   *)
(* value ipaddress.IPv6Address gives for the string; bit strings are          *)
(* sequences of 0 and 1, most significant bit first.                          *)

AddressBits == 128

MaxLead == 3
MaxHoleAt == 3

Repeat(b, n) == [i \in 1..n |-> b]

\* bin(v)[2:]: the binary digits of v without leading zeros, "0" for zero
Bin(bits) ==
    IF \A i \in 1..Len(bits) : bits[i] = 0 THEN <<0>>
    ELSE LET first == CHOOSE i \in 1..Len(bits) :
                          bits[i] = 1 /\ \A j \in 1..(i - 1) : bits[j] = 0
         IN  SubSeq(bits, first, Len(bits))

\* s.rstrip("0")
RStrip0(s) ==
    IF \A i \in 1..Len(s) : s[i] = 0 THEN <<>>
    ELSE LET last == CHOOSE i \in 1..Len(s) :
                         s[i] = 1 /\ \A j \in (i + 1)..Len(s) : s[j] = 0
         IN  SubSeq(s, 1, last)

ipv6_netmask_to_prefixlen(netmask) ==
    LET bits == RStrip0(Bin(netmask))
    IN  IF ~ \A i \in 1..Len(bits) : bits[i] = 1
        THEN [kind |-> "raised", value |-> 0]
        ELSE [kind |-> "returned", value |-> Len(bits)]

\* netmasks: a run of ones after `lead` zero bits, with or without a zero bit
\* inside the run
Netmasks ==
    { Repeat(0, lead) \o Repeat(1, ones) \o Repeat(0, AddressBits - lead - ones) :
        lead \in 0..MaxLead, ones \in 0..(AddressBits - MaxLead) }
    \cup
    { Repeat(1, at) \o <<0>> \o Repeat(1, ones) \o Repeat(0, AddressBits - at - 1 - ones) :
        at \in 1..MaxHoleAt, ones \in 1..(AddressBits - MaxHoleAt - 1) }

NetmaskToPrefixlen ==
    /\ \E m \in Netmasks :
         /\ n_mask' = m
         /\ n_out' = ipv6_netmask_to_prefixlen(m)
    /\ MaskFrame

NextNetmask == NetmaskToPrefixlen

SpecNetmask == Init /\ [][NextNetmask]_vars

----------------------------------------------------------------------------
(* Properties of ipv6_netmask_to_prefixlen *)

\* m is n one-bits from the most significant bit, then zero-bits
IsPrefixMask(m, n) ==
    \A i \in 1..Len(m) : m[i] = (IF i <= n THEN 1 ELSE 0)

\* C30: the call returns n exactly when the netmask is n one-bits starting at
\* the most significant bit followed by 128 - n zero-bits, and raises ValueError
\* for every netmask that is not of that form.
C30_PrefixLength ==
    n_out.kind # "none" =>
        /\ \A n \in 0..AddressBits :
              (n_out.kind = "returned" /\ n_out.value = n) <=> IsPrefixMask(n_mask, n)
        /\ n_out.kind = "raised" <=> ~ \E n \in 0..AddressBits : IsPrefixMask(n_mask, n)

\* the same for the netmasks whose most significant bit is set, and for zero
PrefixLengthWithoutLead ==
    (n_out.kind # "none" /\ (n_mask[1] = 1 \/ \A i \in 1..Len(n_mask) : n_mask[i] = 0)) =>
        C30_PrefixLength

----------------------------------------------------------------------------
(* address/mixin.py: the addresses property and _get_addresses *)

Retries == 5

PauseMs == 200

\* the index socket.if_nametoindex gives for self.name
MixinIndex == 2

AddrEth0 ==
    KMsg(RTMType_NEWADDR, MULTI,
         ifaddrmsg(AF_INET, 24, 0, 0, 2) \o pack_nlattr(IFA_ADDRESS, <<10, 0, 0, 1>>))

AddrLo ==
    KMsg(RTMType_NEWADDR, MULTI,
         ifaddrmsg(AF_INET, 8, 128, 254, 1) \o pack_nlattr(IFA_ADDRESS, <<127, 0, 0, 1>>))

AddrEmptyProto ==
    KMsg(RTMType_NEWADDR, MULTI,
         ifaddrmsg(AF_INET, 24, 0, 0, 2) \o pack_nlattr(IFA_ADDRESS, <<10, 0, 0, 2>>)
             \o pack_nlattr(IFA_PROTO, <<>>))

\* what the kernel answers to the dump request of get_addresses
AddressDumps ==
    {<<KernelFrames(<<AddrLo, AddrEth0>>), KernelFrame(Done_)>>,
     <<KernelFrames(<<AddrLo, Done_>>)>>,
     <<KernelFrame(Interrupted(AddrEth0)), KernelFrame(Done_)>>,
     <<KernelFrame(AddrLo), KernelFrames(<<Interrupted(AddrEth0), Done_>>)>>,
     <<KernelFrames(<<AddrEth0, AddrEmptyProto>>), KernelFrame(Done_)>>,
     <<ErrDatagram(EOPNOTSUPP)>>}

\* the request of get_addresses
GetAddressesRequest ==
    pack_nlmsg(RTMType_GETADDR, NLM_F_REQUEST + NLM_F_DUMP,
               ifaddrmsg(AF_UNSPEC, 0, 0, 0, 0), 1)

\* the loop of get_addresses over the messages: addresses.append(addr_info)
RECURSIVE CollectAddresses(_, _, _)
CollectAddresses(messages, i, addresses) ==
    IF i > Len(messages)
    THEN [kind |-> "returned", exc |-> NoExc, result |-> addresses]
    ELSE IF messages[i][1] # RTMType_NEWADDR
    THEN CollectAddresses(messages, i + 1, addresses)
    ELSE CHOOSE c \in
        {IF d.kind = "raise"
         THEN [kind |-> "raised", exc |-> Exc(d.rec, NoErrno), result |-> <<>>]
         ELSE IF d.kind = "skip" THEN CollectAddresses(messages, i + 1, addresses)
         ELSE CollectAddresses(messages, i + 1, Append(addresses, d.rec))
            : d \in {ParseAddressPayload(messages[i][2])}} : TRUE

\* the loop of _get_addresses: the addresses of the interface, INET and INET6
MixinFilter(addresses, if_index) ==
    SelectSeq(addresses,
              LAMBDA addr : addr.index = if_index /\ addr.family \in {AF_INET, AF_INET6})

\* if retries == 0: raise
RetriesExhausted_Negative(retries) == retries < 0

RetriesExhausted(retries) == retries = 0

\* one call of _get_addresses has ended
AttemptMade(sock, sent, unread, c) ==
    /\ q_log' = Append(q_log, [sock |-> sock, sent |-> sent, unread |-> unread,
                               kind |-> c.kind, exc |-> c.exc, result |-> c.result,
                               slept |-> q_slept])
    /\ IF c.kind = "returned"
       THEN /\ q_pc' = "returned"
            /\ q_out' = c
            /\ UNCHANGED q_retries
       ELSE IF c.exc.type = "DumpInterrupted"
       THEN /\ q_retries' = q_retries - 1
            /\ IF RetriesExhausted(q_retries - 1)
               THEN q_pc' = "raised" /\ q_out' = c
               ELSE q_pc' = "sleep" /\ UNCHANGED q_out
       ELSE /\ q_pc' = "raised"
            /\ q_out' = c
            /\ UNCHANGED q_retries

\* the property is read: retries = 5
AddressesRead ==
    /\ q_pc = "idle"
    /\ q_pc' = "try"
    /\ q_retries' = Retries
    /\ UNCHANGED <<q_opened, q_slept, q_log, q_out>>
    /\ RetryFrame

\* _get_addresses when socket.if_nametoindex raises OSError: return []
GetAddressesNoDevice ==
    /\ q_pc = "try"
    /\ AttemptMade(0, 0, 0, [kind |-> "returned", exc |-> NoExc, result |-> <<>>])
    /\ UNCHANGED <<q_opened, q_slept>>
    /\ RetryFrame

\* _get_addresses when the socket cannot be made or bound: OSError
GetAddressesNoSocket ==
    /\ q_pc = "try"
    /\ AttemptMade(0, 0, 0, [kind |-> "raised", exc |-> Exc("OSError", NoErrno),
                             result |-> <<>>])
    /\ UNCHANGED <<q_opened, q_slept>>
    /\ RetryFrame

\* _get_addresses, whole: with netlink_route() as sock: get_addresses(sock);
\* the socket is closed when the block is left
GetAddressesAttempt ==
    /\ q_pc = "try"
    /\ \E answer \in AddressDumps :
         \E x \in {Exchange(<<>>, answer)} :
           \E c \in {IF x.kind = "returned"
                      THEN CollectAddresses(x.messages, 1, <<>>)
                      ELSE [kind |-> x.kind, exc |-> x.exc, result |-> <<>>]} :
             AttemptMade(q_opened + 1, 1, Len(x.rest),
                         [c EXCEPT !.result = MixinFilter(c.result, MixinIndex)])
    /\ q_opened' = q_opened + 1
    /\ UNCHANGED q_slept
    /\ RetryFrame

\* time.sleep(0.2)
Sleep ==
    /\ q_pc = "sleep"
    /\ q_pc' = "try"
    /\ q_slept' = q_slept + PauseMs
    /\ UNCHANGED <<q_retries, q_opened, q_log, q_out>>
    /\ RetryFrame

NextRetry ==
    \/ AddressesRead
    \/ GetAddressesNoDevice
    \/ GetAddressesNoSocket
    \/ GetAddressesAttempt
    \/ Sleep

SpecRetry == Init /\ [][NextRetry]_vars

----------------------------------------------------------------------------
(* Properties of the addresses property *)

Interrupted_(entry) == entry.kind = "raised" /\ entry.exc.type = "DumpInterrupted"

\* C21: reading addresses makes at most 5 attempts, each on a socket opened for
\* it and with one request sent (recv_msgs does not ask again); an attempt that
\* is not the first follows an attempt that raised DumpInterrupted and a pause
\* of 0.2 s; the read returns what the first successful attempt returned,
\* raises DumpInterrupted only when the 5th attempt in a row was interrupted,
\* and raises any other exception from the attempt it came from.
C21_RetryPolicy ==
    LET n == Len(q_log)
    IN  /\ n <= Retries
        /\ \A i \in 1..n :
              /\ q_log[i].sent <= 1
              /\ q_log[i].sock # 0 =>
                    /\ q_log[i].sent = 1
                    /\ \A j \in 1..(i - 1) : q_log[j].sock # q_log[i].sock
              /\ q_log[i].slept = PauseMs * (i - 1)
              /\ i < n => Interrupted_(q_log[i])
        /\ q_pc \in {"try", "sleep"} /\ n > 0 => Interrupted_(q_log[n]) /\ n < Retries
        /\ q_pc = "try" => q_slept = PauseMs * n
        /\ q_pc = "returned" =>
              /\ q_log[n].kind = "returned"
              /\ q_out = [kind |-> "returned", exc |-> NoExc, result |-> q_log[n].result]
        /\ q_pc = "raised" =>
              /\ q_log[n].kind = "raised"
              /\ q_out.kind = "raised" /\ q_out.exc = q_log[n].exc
              /\ q_out.exc.type = "DumpInterrupted" => n = Retries

\* the 5th attempt in a row was interrupted, after four pauses
C21_Witness ==
    /\ q_pc = "raised"
    /\ q_out.exc.type = "DumpInterrupted"
    /\ Len(q_log) = Retries
    /\ q_slept = 800
    /\ q_opened = 5

\* the third attempt succeeded
RetrySucceeded ==
    /\ q_pc = "returned"
    /\ Len(q_log) = 3
    /\ Len(q_out.result) = 1

----------------------------------------------------------------------------
(* configure/bridge.py and configure/bond.py.  One step is one request sent   *)
(* on the socket (or one decision that sends none); the kernel either carries *)
(* the request out or refuses it, and a refusal leaves the call as the        *)
(* exception recv_msgs raises.  Interface names are sequences of characters.  *)
(* LinkInfo records are kept as decoded: [index, master, mtu, ...].           *)

If_eth0 == <<"e", "t", "h", "0">>
If_eth1 == <<"e", "t", "h", "1">>
If_vnet0 == <<"v", "n", "e", "t", "0">>
If_br0 == <<"b", "r", "0">>
If_bond0 == <<"b", "o", "n", "d", "0">>
If_ghost == <<"g", "h", "o", "s", "t">>

Interfaces_ == {If_eth0, If_eth1, If_vnet0, If_br0, If_bond0}

\* an interface of the kernel; index 0: there is no such interface (gone is
\* the index of the interface of that name that was deleted)
Absent ==
    [index |-> 0, master |-> 0, kind |-> "none", mtu |-> 0, stp |-> 0,
     priority |-> 0, mode |-> 0, miimon |-> 0, gone |-> 0]

Device(index, master) ==
    [Absent EXCEPT !.index = index, !.master = master, !.kind = "device",
                   !.mtu = 1500]

\* the LinkInfo get_link / get_links decode for an interface
LinkInfoFor(dev) ==
    [index |-> dev.index, master |-> dev.master, mtu |-> dev.mtu,
     bridge_stp_state |-> dev.stp, bridge_priority |-> dev.priority,
     bond_mode |-> dev.mode, bond_miimon |-> dev.miimon]

\* get_links(sock): one entry for each interface there is
Snapshot(kernel) ==
    [n \in {m \in DOMAIN kernel : kernel[m].index # 0} |-> LinkInfoFor(kernel[n])]

\* the index the kernel gives to a new interface: indices are handed out in
\* increasing order, that of a deleted interface is not used again
NewIndex(kernel) ==
    1 + CHOOSE i \in {kernel[n].index : n \in DOMAIN kernel}
                        \cup {kernel[n].gone : n \in DOMAIN kernel} :
            \A n \in DOMAIN kernel : kernel[n].index <= i /\ kernel[n].gone <= i

ENOTEMPTY == 39

Req(verb, index, arg) == [verb |-> verb, index |-> index, arg |-> arg]

\* what a request does when the kernel carries it out
KernelApply(kernel, req) ==
    [n \in DOMAIN kernel |->
        IF req.verb \in {"create_bridge", "create_bond"}
        THEN IF n # req.arg.name THEN kernel[n]
             ELSE [Absent EXCEPT !.index = NewIndex(kernel), !.kind = req.arg.kind,
                                 !.mtu = 1500, !.stp = req.arg.stp,
                                 !.priority = req.arg.priority,
                                 !.mode = req.arg.mode, !.miimon = req.arg.miimon]
        ELSE IF req.verb = "delete_link"
        THEN IF kernel[n].index = req.index THEN [Absent EXCEPT !.gone = req.index]
             ELSE IF kernel[n].master = req.index THEN [kernel[n] EXCEPT !.master = 0]
             ELSE kernel[n]
        ELSE IF kernel[n].index # req.index THEN kernel[n]
        ELSE IF req.verb \in {"bridge_add_member", "bridge_rem_member",
                              "bond_add_member", "bond_rem_member"}
        THEN [kernel[n] EXCEPT !.master = req.arg]
        ELSE IF req.verb = "set_bridge_stp" THEN [kernel[n] EXCEPT !.stp = req.arg]
        ELSE IF req.verb = "set_bridge_priority"
        THEN [kernel[n] EXCEPT !.priority = req.arg]
        ELSE IF req.verb = "set_link_mtu" THEN [kernel[n] EXCEPT !.mtu = req.arg]
        ELSE IF req.verb = "set_bond_mode" THEN [kernel[n] EXCEPT !.mode = req.arg]
        ELSE IF req.verb = "set_bond_miimon" THEN [kernel[n] EXCEPT !.miimon = req.arg]
        ELSE kernel[n]]

\* requests the kernel refuses whatever else holds: creating an interface that
\* exists, changing the mode of a bond that has members
KernelRefuses(kernel, req) ==
    IF req.verb \in {"create_bridge", "create_bond"}
    THEN IF kernel[req.arg.name].index # 0 THEN EEXIST ELSE 0
    ELSE IF req.verb = "set_bond_mode"
    THEN IF \E n \in DOMAIN kernel : kernel[n].index # 0 /\ kernel[n].master = req.index
         THEN ENOTEMPTY ELSE 0
    ELSE 0

CallRaised(exc) == c_pc' = "raised" /\ c_out' = [kind |-> "raised", exc |-> exc]

CallGoes(next) ==
    /\ c_pc' = next
    /\ c_out' = IF next = "returned" THEN [kind |-> "returned", exc |-> NoExc]
                ELSE c_out

\* sock.send(msg); recv_msgs(sock) of a request that changes something: the
\* kernel acknowledges it, or answers with an error
Request(req, next) ==
    /\ c_sent' = Append(c_sent, req)
    /\ IF KernelRefuses(c_kernel, req) # 0
       THEN /\ CallRaised(RecvFault(KernelRefuses(c_kernel, req)))
            /\ UNCHANGED c_kernel
       ELSE \/ /\ c_kernel' = KernelApply(c_kernel, req)
               /\ CallGoes(next)
            \/ /\ UNCHANGED c_kernel
               /\ CallRaised(RecvFault(EOPNOTSUPP))

NoRequest(next) == CallGoes(next) /\ UNCHANGED <<c_sent, c_kernel>>

\* get_bridge_members / get_bond_members: the interfaces whose master is index
MembersOf(links, index) == {n \in DOMAIN links : links[n].master = index}

IsPrefixOf(p, name) == Len(p) <= Len(name) /\ SubSeq(name, 1, Len(p)) = p

\* name.startswith(prefixes), prefixes a tuple
StartsWith_Never(name, prefixes) == FALSE

StartsWith(name, prefixes) ==
    \E k \in 1..Len(prefixes) : IsPrefixOf(prefixes[k], name)

Elements(seq) == {seq[k] : k \in 1..Len(seq)}

\* the kernels configure_bridge is run against: br0 is there or not, and each
\* of eth0, eth1, vnet0 is its member or not
BridgeAt(stp, priority) ==
    [Absent EXCEPT !.index = 4, !.kind = "bridge", !.mtu = 1500, !.stp = stp,
                   !.priority = priority]

BridgeKernels ==
    {[n \in Interfaces_ |->
        IF n = If_eth0 THEN Device(2, m0)
        ELSE IF n = If_eth1 THEN Device(3, m1)
        ELSE IF n = If_vnet0 THEN Device(5, mv)
        ELSE IF n = If_br0 THEN br
        ELSE Absent]
        : m0 \in {0, 4}, m1 \in {0, 4}, mv \in {0, 4},
          br \in {BridgeAt(1, 32768), BridgeAt(0, 4096)}}
    \cup
    {[n \in Interfaces_ |->
        IF n = If_eth0 THEN Device(2, 0)
        ELSE IF n = If_eth1 THEN Device(3, 0)
        ELSE IF n = If_vnet0 THEN Device(5, 0)
        ELSE Absent]}

BridgeConfigs ==
    {[name |-> If_br0, members |-> ms, stp |-> TRUE, priority |-> 32768,
      mtu |-> mtu, enable_learning |-> TRUE, preserve_member_prefixes |-> pre]
        : ms \in {<<>>, <<If_eth0>>, <<If_eth1, If_eth0>>, <<If_ghost>>},
          mtu \in {0, 9000},
          pre \in {<<>>, <<<<"v", "n", "e", "t">>>>, <<<<"t", "a", "p">>, <<"e", "t", "h", "1">>>>}}

\* configure_bridge(sock, config, links): links is the caller's cache (what
\* get_links would return now) or None
ConfigureBridge ==
    /\ c_pc = "idle"
    /\ \E kernel \in BridgeKernels, config \in BridgeConfigs, cached \in BOOLEAN :
         /\ c_kernel' = kernel
         /\ c_config' = config
         /\ c_links' = IF cached THEN Snapshot(kernel) ELSE <<>>
         /\ c_pc' = IF cached THEN "create" ELSE "get_links"
    /\ c_op' = "configure_bridge"
    /\ UNCHANGED <<c_link, c_current, c_rem, c_add, c_up, c_sent, c_out>>
    /\ ConfFrame

\* links = get_links(sock)
ConfGetLinks ==
    /\ c_pc = "get_links"
    /\ c_sent' = Append(c_sent, Req("get_links", 0, 0))
    /\ \/ c_links' = Snapshot(c_kernel) /\ CallGoes("create")
       \/ UNCHANGED c_links /\ CallRaised(Exc("DumpInterrupted", NoErrno))
    /\ UNCHANGED <<c_op, c_config, c_kernel, c_link, c_current, c_rem, c_add, c_up>>
    /\ ConfFrame

\* create_bridge(sock, config.name, stp=config.stp, priority=config.priority);
\* NetlinkError with errno EEXIST is caught
CreateBridge ==
    /\ c_pc = "create"
    /\ c_op = "configure_bridge"
    /\ \E req \in {Req("create_bridge", 0,
                      [name |-> c_config.name, kind |-> "bridge",
                       stp |-> IF c_config.stp THEN 1 ELSE 0,
                       priority |-> c_config.priority, mode |-> 0, miimon |-> 0])} :
         /\ c_sent' = Append(c_sent, req)
         /\ IF KernelRefuses(c_kernel, req) = EEXIST
            THEN CallGoes("get_link") /\ UNCHANGED c_kernel
            ELSE \/ c_kernel' = KernelApply(c_kernel, req) /\ CallGoes("get_link")
                 \/ UNCHANGED c_kernel /\ CallRaised(RecvFault(EOPNOTSUPP))
    /\ UNCHANGED <<c_op, c_config, c_links, c_link, c_current, c_rem, c_add, c_up>>
    /\ ConfFrame

\* links[config.name] = get_link(sock, name=config.name); link = links[config.name]
ConfGetLink ==
    /\ c_pc = "get_link"
    /\ c_sent' = Append(c_sent, Req("get_link", c_kernel[c_config.name].index, 0))
    /\ \/ /\ c_link' = LinkInfoFor(c_kernel[c_config.name])
          /\ c_links' = [n \in DOMAIN c_links \cup {c_config.name} |->
                            IF n = c_config.name
                            THEN LinkInfoFor(c_kernel[c_config.name])
                            ELSE c_links[n]]
          /\ CallGoes(IF c_op = "configure_bridge" THEN "stp" ELSE "first_member")
       \/ /\ UNCHANGED <<c_link, c_links>>
          /\ CallRaised(RecvFault(EOPNOTSUPP))
    /\ UNCHANGED <<c_op, c_config, c_kernel, c_current, c_rem, c_add, c_up>>
    /\ ConfFrame

\* if link.bridge_stp_state != (1 if config.stp else 0): set_bridge_stp(...)
SetBridgeStp ==
    /\ c_pc = "stp"
    /\ IF c_link.bridge_stp_state # (IF c_config.stp THEN 1 ELSE 0)
       THEN Request(Req("set_bridge_stp", c_link.index,
                        IF c_config.stp THEN 1 ELSE 0), "priority")
       ELSE NoRequest("priority")
    /\ UNCHANGED <<c_op, c_config, c_links, c_link, c_current, c_rem, c_add, c_up>>
    /\ ConfFrame

\* if link.bridge_priority != config.priority: set_bridge_priority(...); then
\* current_members and the two set differences are computed
SetBridgePriority ==
    /\ c_pc = "priority"
    /\ IF c_link.bridge_priority # c_config.priority
       THEN Request(Req("set_bridge_priority", c_link.index, c_config.priority),
                    "remove")
       ELSE NoRequest("remove")
    /\ c_current' = MembersOf(c_links, c_link.index)
    /\ c_rem' = MembersOf(c_links, c_link.index) \ Elements(c_config.members)
    /\ c_add' = Elements(c_config.members) \ MembersOf(c_links, c_link.index)
    /\ UNCHANGED <<c_op, c_config, c_links, c_link, c_up>>
    /\ ConfFrame

\* for member in current_members_set - desired_members_set: one pass (a set is
\* visited in any order)
BridgeRemove ==
    /\ c_pc = "remove"
    /\ c_op = "configure_bridge"
    /\ IF c_rem = {} THEN NoRequest("add") /\ UNCHANGED c_rem
       ELSE \E member \in c_rem :
              /\ c_rem' = c_rem \ {member}
              /\ IF StartsWith(member, c_config.preserve_member_prefixes)
                 THEN NoRequest("remove")
                 ELSE Request(Req("bridge_rem_member", c_links[member].index, 0),
                              "remove")
    /\ UNCHANGED <<c_op, c_config, c_links, c_link, c_current, c_add, c_up>>
    /\ ConfFrame

\* for member in desired_members_set - current_members_set: one pass;
\* links[member] raises KeyError for a name that is not in links
BridgeAdd ==
    /\ c_pc = "add"
    /\ c_op = "configure_bridge"
    /\ IF c_add = {} THEN NoRequest("mtu") /\ UNCHANGED c_add
       ELSE \E member \in c_add :
              /\ c_add' = c_add \ {member}
              /\ IF member \notin DOMAIN c_links
                 THEN /\ CallRaised(Exc("KeyError", NoErrno))
                      /\ UNCHANGED <<c_sent, c_kernel>>
                 ELSE Request(Req("bridge_add_member", c_links[member].index,
                                  c_link.index), "add")
    /\ UNCHANGED <<c_op, c_config, c_links, c_link, c_current, c_rem, c_up>>
    /\ ConfFrame

\* if config.mtu and link.mtu != config.mtu: set_link_mtu(...)
BridgeMtu ==
    /\ c_pc = "mtu"
    /\ c_op = "configure_bridge"
    /\ IF c_config.mtu # 0 /\ c_link.mtu # c_config.mtu
       THEN Request(Req("set_link_mtu", c_link.index, c_config.mtu), "learning")
       ELSE NoRequest("learning")
    /\ c_up' = c_config.members
    /\ UNCHANGED <<c_op, c_config, c_links, c_link, c_current, c_rem, c_add>>
    /\ ConfFrame

\* for member in config.members: set_bridge_learning(...)
BridgeLearning ==
    /\ c_pc = "learning"
    /\ IF c_up = <<>> THEN NoRequest("up")
       ELSE Request(Req("set_bridge_learning", c_links[Head(c_up)].index,
                        c_config.enable_learning), "member_up")
    /\ UNCHANGED <<c_op, c_config, c_links, c_link, c_current, c_rem, c_add, c_up>>
    /\ ConfFrame

\* ... set_link_up(sock, index=links[member].index)
MemberUp ==
    /\ c_pc = "member_up"
    /\ Request(Req("set_link_up", c_links[Head(c_up)].index, 0),
               IF c_op = "configure_bridge" THEN "learning" ELSE "members_up")
    /\ c_up' = Tail(c_up)
    /\ UNCHANGED <<c_op, c_config, c_links, c_link, c_current, c_rem, c_add>>
    /\ ConfFrame

\* set_link_up(sock, index=link.index), and the call returns
LinkUp ==
    /\ c_pc = "up"
    /\ Request(Req("set_link_up", c_link.index, 0), "returned")
    /\ UNCHANGED <<c_op, c_config, c_links, c_link, c_current, c_rem, c_add, c_up>>
    /\ ConfFrame

NextBridge ==
    \/ ConfigureBridge
    \/ ConfGetLinks
    \/ CreateBridge
    \/ ConfGetLink
    \/ SetBridgeStp
    \/ SetBridgePriority
    \/ BridgeRemove
    \/ BridgeAdd
    \/ BridgeMtu
    \/ BridgeLearning
    \/ MemberUp
    \/ LinkUp

SpecBridge == Init /\ [][NextBridge]_vars

----------------------------------------------------------------------------
(* configure/bond.py *)

BondMode_ACTIVE_BACKUP == 1
BondMode_BALANCE_XOR == 2
BondMode_LACP == 4

\* mode_map[config.mode]
ModeMap(mode) ==
    IF mode = "LACP" THEN BondMode_LACP
    ELSE IF mode = "FAILOVER" THEN BondMode_ACTIVE_BACKUP
    ELSE BondMode_BALANCE_XOR

BondAt(mode, miimon) ==
    [Absent EXCEPT !.index = 4, !.kind = "bond", !.mtu = 1500, !.mode = mode,
                   !.miimon = miimon]

\* the kernels configure_bond is run against: bond0 is there or not, in one
\* mode or another, and each of eth0, eth1 is its member or not
BondKernels ==
    {[n \in Interfaces_ |->
        IF n = If_eth0 THEN Device(2, m0)
        ELSE IF n = If_eth1 THEN Device(3, m1)
        ELSE IF n = If_bond0 THEN bond
        ELSE Absent]
        : m0 \in {0, 4}, m1 \in {0, 4},
          bond \in {BondAt(BondMode_LACP, 100), BondAt(BondMode_ACTIVE_BACKUP, 100),
                    BondAt(BondMode_LACP, 50)}}
    \cup
    {[n \in Interfaces_ |->
        IF n = If_eth0 THEN Device(2, 0)
        ELSE IF n = If_eth1 THEN Device(3, 0)
        ELSE Absent]}

\* the configurations: xmit_hash_policy, lacpdu_rate and primary are None, so
\* the branches for them send nothing
BondConfigs ==
    {[name |-> If_bond0, mode |-> mode, members |-> ms, miimon |-> 100, mtu |-> 1500]
        : mode \in {"LACP", "FAILOVER"},
          ms \in {<<>>, <<If_eth0>>, <<If_eth0, If_eth1>>, <<If_eth1, If_eth0>>,
                  <<If_ghost>>}}

CreateBondReq ==
    Req("create_bond", 0,
        [name |-> c_config.name, kind |-> "bond", stp |-> 0, priority |-> 0,
         mode |-> ModeMap(c_config.mode), miimon |-> c_config.miimon])

\* needs_down, lines 98-111
NeedsDown(link, config) ==
    \/ link.bond_mode # ModeMap(config.mode)
    \/ config.miimon # 0 /\ link.bond_miimon # config.miimon

\* configure_bond(sock, config, links)
ConfigureBond ==
    /\ c_pc = "idle"
    /\ \E kernel \in BondKernels, config \in BondConfigs, cached \in BOOLEAN :
         /\ c_kernel' = kernel
         /\ c_config' = config
         /\ c_links' = IF cached THEN Snapshot(kernel) ELSE <<>>
         /\ c_pc' = IF cached THEN "create" ELSE "get_links"
    /\ c_op' = "configure_bond"
    /\ UNCHANGED <<c_link, c_current, c_rem, c_add, c_up, c_sent, c_out>>
    /\ ConfFrame

\* create_bond(sock, config.name, mode=target_mode, ...); NetlinkError with
\* errno EEXIST is caught
CreateBond ==
    /\ c_pc = "create"
    /\ c_op = "configure_bond"
    /\ c_sent' = Append(c_sent, CreateBondReq)
    /\ IF KernelRefuses(c_kernel, CreateBondReq) = EEXIST
       THEN CallGoes("get_link") /\ UNCHANGED c_kernel
       ELSE \/ c_kernel' = KernelApply(c_kernel, CreateBondReq) /\ CallGoes("get_link")
            \/ UNCHANGED c_kernel /\ CallRaised(RecvFault(EOPNOTSUPP))
    /\ UNCHANGED <<c_op, c_config, c_links, c_link, c_current, c_rem, c_add, c_up>>
    /\ ConfFrame

\* current_members = [...]; if current_members and config.members and
\* current_members[0] != config.members[0]: the bond is made again.  Which
\* member get_bond_members lists first is not known: any of them.
FirstMember ==
    /\ c_pc = "first_member"
    /\ c_current' = MembersOf(c_links, c_link.index)
    /\ IF MembersOf(c_links, c_link.index) # {} /\ c_config.members # <<>>
       THEN \E first \in MembersOf(c_links, c_link.index) :
               IF first # c_config.members[1] THEN NoRequest("delete")
               ELSE NoRequest("down")
       ELSE NoRequest("down")
    /\ UNCHANGED <<c_op, c_config, c_links, c_link, c_rem, c_add, c_up>>
    /\ ConfFrame

\* delete_link(sock, index=link.index)
BondDelete ==
    /\ c_pc = "delete"
    /\ Request(Req("delete_link", c_link.index, 0), "recreate")
    /\ UNCHANGED <<c_op, c_config, c_links, c_link, c_current, c_rem, c_add, c_up>>
    /\ ConfFrame

\* create_bond(...) again: here no exception is caught
BondRecreate ==
    /\ c_pc = "recreate"
    /\ Request(CreateBondReq, "reget")
    /\ UNCHANGED <<c_op, c_config, c_links, c_link, c_current, c_rem, c_add, c_up>>
    /\ ConfFrame

\* links[config.name] = get_link(...); link = links[config.name];
\* current_members = []
BondReget ==
    /\ c_pc = "reget"
    /\ c_sent' = Append(c_sent, Req("get_link", c_kernel[c_config.name].index, 0))
    /\ \/ /\ c_link' = LinkInfoFor(c_kernel[c_config.name])
          /\ c_links' = [c_links EXCEPT ![c_config.name] =
                            LinkInfoFor(c_kernel[c_config.name])]
          /\ c_current' = {}
          /\ CallGoes("down")
       \/ /\ UNCHANGED <<c_link, c_links, c_current>>
          /\ CallRaised(RecvFault(EOPNOTSUPP))
    /\ UNCHANGED <<c_op, c_config, c_kernel, c_rem, c_add, c_up>>
    /\ ConfFrame

\* if needs_down: set_link_down(sock, index=link.index)
BondDown ==
    /\ c_pc = "down"
    /\ IF NeedsDown(c_link, c_config)
       THEN Request(Req("set_link_down", c_link.index, 0),
                    IF c_link.bond_mode # ModeMap(c_config.mode)
                    THEN "detach" ELSE "miimon")
       ELSE NoRequest("members")
    /\ c_rem' = c_current
    /\ UNCHANGED <<c_op, c_config, c_links, c_link, c_current, c_add, c_up>>
    /\ ConfFrame

\* for member in current_members: bond_rem_member(...), one pass
BondDetach ==
    /\ c_pc = "detach"
    /\ IF c_rem = {} THEN NoRequest("mode") /\ UNCHANGED c_rem
       ELSE \E member \in c_rem :
              /\ c_rem' = c_rem \ {member}
              /\ Request(Req("bond_rem_member", c_links[member].index, 0), "detach")
    /\ UNCHANGED <<c_op, c_config, c_links, c_link, c_current, c_add, c_up>>
    /\ ConfFrame

\* set_bond_mode(sock, target_mode, index=link.index); current_members = []
SetBondMode ==
    /\ c_pc = "mode"
    /\ \E req \in {Req("set_bond_mode", c_link.index, ModeMap(c_config.mode))} :
         /\ c_sent' = Append(c_sent, req)
         /\ IF KernelRefuses(c_kernel, req) = ENOTEMPTY
            THEN CallRaised(Exc("BondHasMembers", NoErrno)) /\ UNCHANGED c_kernel
            ELSE \/ c_kernel' = KernelApply(c_kernel, req) /\ CallGoes("miimon")
                 \/ UNCHANGED c_kernel /\ CallRaised(RecvFault(EOPNOTSUPP))
    /\ c_current' = {}
    /\ UNCHANGED <<c_op, c_config, c_links, c_link, c_rem, c_add, c_up>>
    /\ ConfFrame

\* if config.miimon: set_bond_miimon(sock, config.miimon, index=link.index)
SetBondMiimon ==
    /\ c_pc = "miimon"
    /\ IF c_config.miimon # 0
       THEN Request(Req("set_bond_miimon", c_link.index, c_config.miimon), "bond_up")
       ELSE NoRequest("bond_up")
    /\ UNCHANGED <<c_op, c_config, c_links, c_link, c_current, c_rem, c_add, c_up>>
    /\ ConfFrame

\* set_link_up(sock, index=link.index), still under needs_down
BondUpAgain ==
    /\ c_pc = "bond_up"
    /\ Request(Req("set_link_up", c_link.index, 0), "refresh")
    /\ UNCHANGED <<c_op, c_config, c_links, c_link, c_current, c_rem, c_add, c_up>>
    /\ ConfFrame

\* links[config.name] = get_link(sock, name=config.name): the entry of the
\* bond is read again, link and the entries of the members are not
BondRefresh ==
    /\ c_pc = "refresh"
    /\ c_sent' = Append(c_sent, Req("get_link", c_kernel[c_config.name].index, 0))
    /\ \/ /\ c_links' = [c_links EXCEPT ![c_config.name] =
                            LinkInfoFor(c_kernel[c_config.name])]
          /\ CallGoes("members")
       \/ /\ UNCHANGED c_links
          /\ CallRaised(RecvFault(EOPNOTSUPP))
    /\ UNCHANGED <<c_op, c_config, c_kernel, c_link, c_current, c_rem, c_add, c_up>>
    /\ ConfFrame

\* current_members = [m[0] for m in get_bond_members(links, index=link.index)]
\* and the two set differences
BondMembers ==
    /\ c_pc = "members"
    /\ c_current' = MembersOf(c_links, c_link.index)
    /\ c_rem' = MembersOf(c_links, c_link.index) \ Elements(c_config.members)
    /\ c_add' = Elements(c_config.members) \ MembersOf(c_links, c_link.index)
    /\ NoRequest("remove")
    /\ UNCHANGED <<c_op, c_config, c_links, c_link, c_up>>
    /\ ConfFrame

\* for member in current_members_set - desired_members_set: one pass
BondRemove ==
    /\ c_pc = "remove"
    /\ c_op = "configure_bond"
    /\ IF c_rem = {} THEN NoRequest("add") /\ UNCHANGED c_rem
       ELSE \E member \in c_rem :
              /\ c_rem' = c_rem \ {member}
              /\ Request(Req("bond_rem_member", c_links[member].index, 0), "remove")
    /\ UNCHANGED <<c_op, c_config, c_links, c_link, c_current, c_add, c_up>>
    /\ ConfFrame

\* for member in desired_members_set - current_members_set: one pass
BondAdd ==
    /\ c_pc = "add"
    /\ c_op = "configure_bond"
    /\ IF c_add = {} THEN NoRequest("members_up") /\ c_up' = c_config.members
                          /\ UNCHANGED c_add
       ELSE \E member \in c_add :
              /\ c_add' = c_add \ {member}
              /\ UNCHANGED c_up
              /\ IF member \notin DOMAIN c_links
                 THEN /\ CallRaised(Exc("KeyError", NoErrno))
                      /\ UNCHANGED <<c_sent, c_kernel>>
                 ELSE Request(Req("bond_add_member", c_links[member].index,
                                  c_link.index), "add")
    /\ UNCHANGED <<c_op, c_config, c_links, c_link, c_current, c_rem>>
    /\ ConfFrame

\* for member in config.members: the loop test
BondMembersUp ==
    /\ c_pc = "members_up"
    /\ NoRequest(IF c_up = <<>> THEN "bond_mtu" ELSE "member_up")
    /\ UNCHANGED <<c_op, c_config, c_links, c_link, c_current, c_rem, c_add, c_up>>
    /\ ConfFrame

\* if config.mtu: set_link_mtu(sock, config.mtu, index=link.index)
BondMtu ==
    /\ c_pc = "bond_mtu"
    /\ IF c_config.mtu # 0
       THEN Request(Req("set_link_mtu", c_link.index, c_config.mtu), "up")
       ELSE NoRequest("up")
    /\ UNCHANGED <<c_op, c_config, c_links, c_link, c_current, c_rem, c_add, c_up>>
    /\ ConfFrame

NextBond ==
    \/ ConfigureBond
    \/ ConfGetLinks
    \/ CreateBond
    \/ ConfGetLink
    \/ FirstMember
    \/ BondDelete
    \/ BondRecreate
    \/ BondReget
    \/ BondDown
    \/ BondDetach
    \/ SetBondMode
    \/ SetBondMiimon
    \/ BondUpAgain
    \/ BondRefresh
    \/ BondMembers
    \/ BondRemove
    \/ BondAdd
    \/ BondMembersUp
    \/ MemberUp
    \/ BondMtu
    \/ LinkUp

SpecBond == Init /\ [][NextBond]_vars

----------------------------------------------------------------------------
(* Properties of configure_bridge *)

\* the name starts with one of config.preserve_member_prefixes
Preserved(name) ==
    \E k \in 1..Len(c_config.preserve_member_prefixes) :
        LET p == c_config.preserve_member_prefixes[k]
        IN  Len(p) <= Len(name) /\ \A i \in 1..Len(p) : name[i] = p[i]

WasSent(req) == \E k \in 1..Len(c_sent) : c_sent[k] = req

\* C22: configure_bridge sends no remove-member request for a current member
\* whose name starts with one of config.preserve_member_prefixes, whether or not
\* it is in config.members; when the call returns, every other current member
\* that is not in config.members has been removed, and every interface of
\* config.members that was not a member has been added.
C22_PreservedMembers ==
    c_op = "configure_bridge" =>
        /\ \A k \in 1..Len(c_sent) :
              c_sent[k].verb = "bridge_rem_member" =>
                  \A n \in DOMAIN c_links :
                      c_links[n].index = c_sent[k].index =>
                          /\ ~ Preserved(n)
                          /\ n \in c_current \ Elements(c_config.members)
        /\ \A n \in c_current : Preserved(n) => c_kernel[n].master = c_link.index
        /\ c_pc = "returned" =>
              /\ \A m \in c_current \ Elements(c_config.members) :
                    ~ Preserved(m) =>
                        /\ WasSent(Req("bridge_rem_member", c_links[m].index, 0))
                        /\ c_kernel[m].master = 0
              /\ \A m \in Elements(c_config.members) \ c_current :
                    /\ WasSent(Req("bridge_add_member", c_links[m].index, c_link.index))
                    /\ c_kernel[m].master = c_link.index

\* vnet0 and eth1 were members, only eth0 is wanted, "vnet" is preserved: the
\* call has returned with eth1 removed, eth0 added and vnet0 left alone
C22_Witness ==
    /\ c_op = "configure_bridge"
    /\ c_pc = "returned"
    /\ c_config.members = <<If_eth0>>
    /\ c_config.preserve_member_prefixes = <<<<"v", "n", "e", "t">>>>
    /\ c_current = {If_eth1, If_vnet0}
    /\ c_kernel[If_vnet0].master = c_link.index
    /\ c_kernel[If_eth1].master = 0
    /\ c_kernel[If_eth0].master = c_link.index

----------------------------------------------------------------------------
(* Properties of configure_bond *)

\* C29: when configure_bond has returned, every interface of config.members is
\* attached to the bond: its master is the bond's index.
C29_MembersAttached ==
    (c_op = "configure_bond" /\ c_pc = "returned") =>
        \A k \in 1..Len(c_config.members) :
            c_kernel[c_config.members[k]].master = c_kernel[c_config.name].index

\* the same for the calls that did not detach members for a mode change
MembersAttachedWithoutModeChange ==
    (~ \E k \in 1..Len(c_sent) : c_sent[k].verb = "set_bond_mode") =>
        C29_MembersAttached

----------------------------------------------------------------------------
(* AddressNetlink and EthtoolNetlink: _connect, close, __enter__, __exit__.   *)
(* _connect stores the new socket in _sock; the socket that was there is no   *)
(* longer referenced by the handle.  The interpreter closes an unreferenced   *)
(* socket when it finalizes it: at the assignment if nothing else refers to   *)
(* it, later or never otherwise.  Both outcomes are kept.                     *)

MaxSockets == 4

EthtoolFamily == 21

OwnerCall(op, kind) == [op |-> op, kind |-> kind, sock |-> o_sock, open |-> o_open]

\* AddressNetlink() / EthtoolNetlink(): _sock is None
NewOwner ==
    /\ o_kind = "none"
    /\ \E kind \in {"address", "ethtool"} : o_kind' = kind
    /\ UNCHANGED <<o_sock, o_family, o_open, o_made, o_lost, o_last>>
    /\ OwnerFrame

\* what is open after self._sock = socket.socket(...)
OpenAfterConnect_KeepAll(finalized) == o_open \cup {o_made + 1}

OpenAfterConnect(finalized) ==
    IF finalized THEN (o_open \ {o_sock}) \cup {o_made + 1}
    ELSE o_open \cup {o_made + 1}

\* the body of _connect: socket(), setsockopt, bind, getsockname and, for
\* EthtoolNetlink, _resolve_family; bind and _resolve_family may raise
ConnectBody(op) ==
    /\ o_kind # "none"
    /\ o_made < MaxSockets
    /\ o_made' = o_made + 1
    /\ o_sock' = o_made + 1
    /\ o_lost' = IF o_sock # 0 THEN o_lost \cup {o_sock} ELSE o_lost
    /\ \E finalized \in BOOLEAN : o_open' = OpenAfterConnect(finalized)
    /\ \E how \in {"returned", "bind", "family"} :
         /\ how = "family" => o_kind = "ethtool"
         /\ o_last' = OwnerCall(op, IF how = "returned" THEN "returned" ELSE "raised")
         /\ o_family' = IF how = "returned" /\ o_kind = "ethtool"
                        THEN EthtoolFamily ELSE o_family
    /\ UNCHANGED o_kind
    /\ OwnerFrame

\* the body of close: if self._sock: self._sock.close(); self._sock = None
CloseBody(op) ==
    /\ o_kind # "none"
    /\ o_open' = IF o_sock # 0 THEN o_open \ {o_sock} ELSE o_open
    /\ o_sock' = 0
    /\ o_last' = OwnerCall(op, "returned")
    /\ UNCHANGED <<o_kind, o_family, o_made, o_lost>>
    /\ OwnerFrame

OwnerConnect == ConnectBody("_connect")

OwnerEnter == ConnectBody("__enter__")

OwnerClose == CloseBody("close")

OwnerExit == CloseBody("__exit__")

NextOwner ==
    \/ NewOwner
    \/ OwnerConnect
    \/ OwnerEnter
    \/ OwnerClose
    \/ OwnerExit

SpecOwner == Init /\ [][NextOwner]_vars

----------------------------------------------------------------------------
(* Properties of the socket a handle owns *)

\* C23: at any time at most one of the sockets the handle made is open; when
\* close() (or __exit__) has returned none of them is open and _sock is None; a
\* close() on a handle whose _sock is None changes nothing.
C23_OneSocket ==
    /\ Cardinality(o_open) <= 1
    /\ o_last.op \in {"close", "__exit__"} =>
          /\ o_open = {}
          /\ o_sock = 0
          /\ o_last.sock = 0 => o_open = o_last.open

\* the same for handles on which _connect has run only while _sock was None
OneSocketWhenNoneReplaced == o_lost = {} => C23_OneSocket

----------------------------------------------------------------------------
(* get_link_addresses, get_link_routes and AddressNetlink.get_link_addresses: *)
(* the name is resolved, GET_STRICT_CHK is set to 1, and the request and the  *)
(* reading of its response run in a try whose finally sets the option to 0.   *)

\* a call is made while at most this many datagrams are queued unread
MaxUnread == 2

StrictFunctions ==
    {"get_link_addresses", "get_link_routes", "AddressNetlink.get_link_addresses"}

\* the socket option when the try statement is left, by return or by exception
AfterFinally_ReturnOnly(kind) == IF kind = "returned" THEN 0 ELSE 1

AfterFinally(kind) == 0

\* the call has ended: the finally clause ran
StrictLeave(c) ==
    /\ k_pc' = c.kind
    /\ k_out' = c
    /\ k_opt' = AfterFinally(c.kind)
    /\ k_ops' = Append(k_ops, <<"setsockopt", AfterFinally(c.kind)>>)

\* socket.if_nametoindex(name): OSError becomes DeviceNotFound
StrictCall ==
    /\ k_pc \in {"idle", "returned", "raised"}
    /\ Len(k_queue) <= MaxUnread
    /\ k_ops' = <<>>
    /\ \E fn \in StrictFunctions : k_fn' = fn
    /\ \E found \in BOOLEAN :
         IF found
         THEN k_pc' = "resolved" /\ k_out' = NoOutcome
         ELSE /\ k_pc' = "raised"
              /\ k_out' = [kind |-> "raised", exc |-> Exc("DeviceNotFound", NoErrno),
                           result |-> <<>>]
    /\ UNCHANGED <<k_opt, k_queue>>
    /\ StrictFrame

\* sock.setsockopt(SOL_NETLINK, NetlinkSockOpt.GET_STRICT_CHK, 1)
StrictSet ==
    /\ k_pc = "resolved"
    /\ k_pc' = "strict"
    /\ k_opt' = 1
    /\ k_ops' = Append(k_ops, <<"setsockopt", 1>>)
    /\ UNCHANGED <<k_fn, k_queue, k_out>>
    /\ StrictFrame

\* sock.send(msg): the kernel queues its answer, or send raises OSError
StrictSend ==
    /\ k_pc = "strict"
    /\ \/ /\ \E answer \in IF k_fn = "get_link_routes" THEN RouteDumps ELSE AddressDumps :
               k_queue' = k_queue \o answer
          /\ k_pc' = "sent"
          /\ k_ops' = Append(k_ops, <<"send", 1>>)
          /\ UNCHANGED <<k_opt, k_out>>
       \/ /\ StrictLeave([kind |-> "raised", exc |-> Exc("OSError", NoErrno),
                          result |-> <<>>])
          /\ UNCHANGED k_queue
    /\ UNCHANGED k_fn
    /\ StrictFrame

\* the loop over recv_msgs and the return, then the finally clause
StrictReceive ==
    /\ k_pc = "sent"
    /\ \E x \in {Exchange(k_queue, <<>>)} :
         /\ k_queue' = x.rest
         /\ StrictLeave(IF x.kind # "returned"
                        THEN [kind |-> x.kind, exc |-> x.exc, result |-> <<>>]
                        ELSE IF k_fn = "get_link_routes"
                        THEN [kind |-> "returned", exc |-> NoExc,
                              result |-> CollectRoutes(x.messages, 1, <<>>)]
                        ELSE CollectAddresses(x.messages, 1, <<>>))
    /\ UNCHANGED k_fn
    /\ StrictFrame

NextStrict ==
    \/ StrictCall
    \/ StrictSet
    \/ StrictSend
    \/ StrictReceive

SpecStrict == Init /\ [][NextStrict]_vars

----------------------------------------------------------------------------
(* Properties of GET_STRICT_CHK *)

\* C24: when get_link_addresses or get_link_routes has ended, by return or by
\* an exception raised while sending or receiving, GET_STRICT_CHK is 0; it is 1
\* only while the call stands between its setsockopt(1) and the end of its
\* response; a call whose name does not resolve (DeviceNotFound) does nothing
\* to the socket.
C24_StrictChk ==
    /\ k_pc \in {"idle", "returned", "raised"} => k_opt = 0
    /\ k_opt = 1 => k_pc \in {"strict", "sent"}
    /\ k_pc \in {"returned", "raised"} /\ k_ops # <<>> =>
          /\ k_ops[1] = <<"setsockopt", 1>>
          /\ k_ops[Len(k_ops)] = <<"setsockopt", 0>>
    /\ k_pc = "resolved" => k_ops = <<>>
    /\ k_pc = "raised" /\ k_ops = <<>> => k_out.exc.type = "DeviceNotFound"

\* an interrupted dump was raised out of the receive loop, and the option is 0
C24_Witness ==
    /\ k_pc = "raised"
    /\ k_out.exc.type = "DumpInterrupted"
    /\ k_ops = <<<<"setsockopt", 1>>, <<"send", 1>>, <<"setsockopt", 0>>>>
    /\ k_opt = 0

----------------------------------------------------------------------------
(* ethtool/netlink.py: EthtoolNetlink._parse_bitset *)

EthtoolABitset_SIZE == 2

EthtoolABitset_BITS == 3

EthtoolABitset_VALUE == 4

EthtoolABitset_MASK == 5

EthtoolABitsetBits_BIT == 1

EthtoolABitsetBit_INDEX == 1

EthtoolABitsetBit_VALUE == 3

\* how many entries the lists of the inputs have at most
MaxEntries == 2

\* the bit positions of a bitmap: for byte_idx, byte_val in enumerate(data):
\* for bit in range(8): if byte_val & (1 << bit): add(byte_idx * 8 + bit)
BitmapBits(data) ==
    {(i - 1) * 8 + bit : <<i, bit>> \in
        {p \in (1..Len(data)) \X (0..7) : BitAnd(data[p[1]], Pow2(p[2])) # 0}}

\* struct.unpack("I", data[:4])[0]: struct.error on fewer than 4 bytes
UnpackI4(data) ==
    IF Len(data) < 4 THEN [ok |-> FALSE, val |-> 0]
    ELSE [ok |-> TRUE, val |-> UnpackU32(data, 0)]

\* one entry of the list: bit_index and bit_value
ParseBit(bit_data) ==
    CHOOSE r \in
        {[ok |-> ~Has(bit_attrs, EthtoolABitsetBit_INDEX)
                    \/ UnpackI4(bit_attrs[EthtoolABitsetBit_INDEX]).ok,
          bit_index |-> IF Has(bit_attrs, EthtoolABitsetBit_INDEX)
                        THEN Some(UnpackI4(bit_attrs[EthtoolABitsetBit_INDEX]).val)
                        ELSE NoneInt,
          bit_value |-> IF Has(bit_attrs, EthtoolABitsetBit_VALUE)
                           /\ Len(bit_attrs[EthtoolABitsetBit_VALUE]) > 0
                        THEN bit_attrs[EthtoolABitsetBit_VALUE][1] # 0
                        ELSE TRUE]
            : bit_attrs \in {parse_attrs(bit_data, 0)}} : TRUE

\* if bit_index is not None and bit_value: value_bits.add(bit_index)
AddsToValue(bit) == bit.bit_index.some /\ bit.bit_value

\* a mask that takes only the entries whose value is true
AddsToMask_TrueOnly(bit) == bit.bit_index.some /\ bit.bit_value

\* if bit_index is not None: mask_bits.add(bit_index)
AddsToMask(bit) == bit.bit_index.some

\* the loop over the list
RECURSIVE ParseBits(_, _, _)
ParseBits(bits_data, offset, acc) ==
    IF ~(offset + 4 <= Len(bits_data)) THEN acc
    ELSE LET h == UnpackHH(bits_data, offset) IN
         IF h.nla_len < 4 THEN acc
         ELSE IF BitAnd(h.nla_type, NlaTypeMask) # EthtoolABitsetBits_BIT
         THEN ParseBits(bits_data, offset + Align4(h.nla_len), acc)
         ELSE CHOOSE r \in
            {IF ~bit.ok THEN [acc EXCEPT !.kind = "raised"]
             ELSE ParseBits(bits_data, offset + Align4(h.nla_len),
                    [acc EXCEPT
                       !.value_bits = IF AddsToValue(bit) THEN @ \cup {bit.bit_index.val}
                                      ELSE @,
                       !.mask_bits = IF AddsToMask(bit) THEN @ \cup {bit.bit_index.val}
                                     ELSE @])
                : bit \in {ParseBit(Slice(bits_data, offset + 4, offset + h.nla_len))}} : TRUE

\* _parse_bitset(data): (size, value_bits, mask_bits), or struct.error
parse_bitset(data) ==
    CHOOSE r \in
        {IF Has(attrs, EthtoolABitset_SIZE) /\ ~UnpackI4(attrs[EthtoolABitset_SIZE]).ok
         THEN [kind |-> "raised", size |-> 0, value_bits |-> {}, mask_bits |-> {}]
         ELSE CHOOSE out \in
            {IF acc.kind = "raised"
             THEN [kind |-> "raised", size |-> 0, value_bits |-> {}, mask_bits |-> {}]
             ELSE acc
                : acc \in
                   {ParseBits(IF Has(attrs, EthtoolABitset_BITS)
                              THEN attrs[EthtoolABitset_BITS] ELSE <<>>,
                              0,
                              [kind |-> "returned",
                               size |-> IF Has(attrs, EthtoolABitset_SIZE)
                                        THEN UnpackI4(attrs[EthtoolABitset_SIZE]).val
                                        ELSE 0,
                               value_bits |-> IF Has(attrs, EthtoolABitset_VALUE)
                                              THEN BitmapBits(attrs[EthtoolABitset_VALUE])
                                              ELSE {},
                               mask_bits |-> IF Has(attrs, EthtoolABitset_MASK)
                                             THEN BitmapBits(attrs[EthtoolABitset_MASK])
                                             ELSE {}])}} : TRUE
            : attrs \in {parse_attrs(data, 0)}} : TRUE

\* the entries of the lists: attribute type, index (none, a number, or three
\* bytes only) and value (no VALUE attribute, an empty one, a byte 0, a byte 1)
BitEntry(type, index, short, value) ==
    [type |-> type, index |-> index, short |-> short, value |-> value]

BitEntries ==
    {BitEntry(EthtoolABitsetBits_BIT, Some(3), FALSE, "absent"),
     BitEntry(EthtoolABitsetBits_BIT, Some(9), FALSE, "zero"),
     BitEntry(EthtoolABitsetBits_BIT, Some(3), FALSE, "zero"),
     BitEntry(EthtoolABitsetBits_BIT, Some(12), FALSE, "one"),
     BitEntry(EthtoolABitsetBits_BIT, Some(0), FALSE, "empty"),
     BitEntry(EthtoolABitsetBits_BIT, NoneInt, FALSE, "one"),
     BitEntry(EthtoolABitsetBits_BIT + 1, Some(5), FALSE, "one"),
     BitEntry(EthtoolABitsetBits_BIT, Some(7), TRUE, "one")}

BitLists == UNION {[1..n -> BitEntries] : n \in 0..MaxEntries}

Bitsets ==
    [size : {NoneInt, Some(16)},
     value : {NoneStr, Some(<<5, 0>>), Some(<<0, 144>>)},
     mask : {NoneStr, Some(<<7, 2>>)},
     bits : {NoneStr} \cup {Some(l) : l \in BitLists}]

\* the bytes of an entry and of a bitset, as the kernel lays them out
EncodeBit(entry) ==
    pack_nlattr_nested(entry.type,
        (IF ~entry.index.some THEN <<>>
         ELSE IF entry.short
         THEN pack_nlattr(EthtoolABitsetBit_INDEX, SubSeq(PackU32(entry.index.val), 1, 3))
         ELSE pack_nlattr_u32(EthtoolABitsetBit_INDEX, entry.index.val))
        \o (CASE entry.value = "absent" -> <<>>
              [] entry.value = "empty" -> pack_nlattr(EthtoolABitsetBit_VALUE, <<>>)
              [] entry.value = "zero" -> pack_nlattr(EthtoolABitsetBit_VALUE, <<0>>)
              [] entry.value = "one" -> pack_nlattr(EthtoolABitsetBit_VALUE, <<1>>)))

RECURSIVE EncodeBits(_, _)
EncodeBits(list, i) ==
    IF i > Len(list) THEN <<>> ELSE EncodeBit(list[i]) \o EncodeBits(list, i + 1)

EncodeBitset(b) ==
    (IF b.size.some THEN pack_nlattr_u32(EthtoolABitset_SIZE, b.size.val) ELSE <<>>)
    \o (IF b.bits.some
        THEN pack_nlattr_nested(EthtoolABitset_BITS, EncodeBits(b.bits.val, 1)) ELSE <<>>)
    \o (IF b.value.some THEN pack_nlattr(EthtoolABitset_VALUE, b.value.val) ELSE <<>>)
    \o (IF b.mask.some THEN pack_nlattr(EthtoolABitset_MASK, b.mask.val) ELSE <<>>)

\* _parse_bitset(attrs[...]) on one bitset
ParseBitset ==
    /\ b_out.kind = "none"
    /\ \E b \in Bitsets :
         \E data \in {EncodeBitset(b)} :
           /\ b_in' = b
           /\ b_data' = data
           /\ b_out' = parse_bitset(data)
    /\ BitsetFrame

\* the result is taken
BitsetTaken ==
    /\ b_out.kind # "none"
    /\ b_in' = NoBitset
    /\ b_data' = <<>>
    /\ b_out' = NoBits
    /\ BitsetFrame

NextBitset ==
    \/ ParseBitset
    \/ BitsetTaken

SpecBitset == Init /\ [][NextBitset]_vars

----------------------------------------------------------------------------
(* Properties of _parse_bitset *)

\* the entries of the list that carry an index
Indexed(b) ==
    IF b.bits.some
    THEN {e \in Elements(b.bits.val) : e.type = EthtoolABitsetBits_BIT /\ e.index.some}
    ELSE {}

\* every index of the list has its four bytes
WellFormed(b) == \A e \in Indexed(b) : ~e.short

\* C25: for a bitset with the inline bitmaps, the list, or both, _parse_bitset
\* returns as value-bits the bits set in the inline VALUE bitmap together with
\* the indices of the entries whose value is true, and as mask-bits the bits set
\* in the inline MASK bitmap together with the indices of all entries; an entry
\* whose value is false (a VALUE attribute whose first byte is 0) adds to the
\* mask-bits only.  An entry without a VALUE attribute, or with an empty one,
\* counts as true.
C25_BitsetUnion ==
    (b_out.kind # "none" /\ WellFormed(b_in)) =>
        /\ b_out.kind = "returned"
        /\ b_out.value_bits =
              (IF b_in.value.some THEN BitmapBits(b_in.value.val) ELSE {})
                 \cup {e.index.val : e \in {x \in Indexed(b_in) : x.value # "zero"}}
        /\ b_out.mask_bits =
              (IF b_in.mask.some THEN BitmapBits(b_in.mask.val) ELSE {})
                 \cup {e.index.val : e \in Indexed(b_in)}

\* both representations at once: the inline bitmaps, a false entry 9 and a true
\* entry 12
C25_Witness ==
    /\ b_in.value = Some(<<5, 0>>)
    /\ b_in.mask = Some(<<7, 2>>)
    /\ b_in.bits = Some(<<BitEntry(EthtoolABitsetBits_BIT, Some(9), FALSE, "zero"),
                          BitEntry(EthtoolABitsetBits_BIT, Some(12), FALSE, "one")>>)
    /\ b_out.kind = "returned"
    /\ b_out.value_bits = {0, 2, 12}
    /\ b_out.mask_bits = {0, 1, 2, 9, 12}

----------------------------------------------------------------------------
(* _parse_link_payload on records with a property list *)

\* how many attributes the property lists of the inputs have at most
MaxProps == 3

Name_en0 == <<101, 110, 48>>

Name_enp3s0 == <<101, 110, 112, 51, 115, 48>>

Name_ens1 == <<101, 110, 115, 49>>

\* the attributes a property list is made of: alternate names, one of them
\* with the nested bit set in its type, one that is not valid UTF-8, and an
\* attribute of another type
PropEntries ==
    {[type |-> IFLA_ALT_IFNAME, name |-> Name_en0],
     [type |-> IFLA_ALT_IFNAME, name |-> Name_enp3s0],
     [type |-> IFLA_ALT_IFNAME + NESTED, name |-> Name_ens1],
     [type |-> IFLA_ALT_IFNAME, name |-> <<101, 255>>],
     [type |-> IFLA_IFNAME, name |-> Name_en0]}

PropLists ==
    {NoProps} \cup {Some(l) : l \in UNION {[1..n -> PropEntries] : n \in 0..MaxProps}}

RECURSIVE EncodeProps(_, _)
EncodeProps(list, i) ==
    IF i > Len(list) THEN <<>>
    ELSE pack_nlattr(list[i].type, list[i].name \o <<0>>) \o EncodeProps(list, i + 1)

\* a NEWLINK record of eth0 with the property list
PropPayload(props) ==
    LinkHeader \o pack_nlattr(IFLA_IFNAME, Name_eth0)
        \o (IF props.some
            THEN pack_nlattr_nested(IFLA_PROP_LIST, EncodeProps(props.val, 1)) ELSE <<>>)
        \o pack_nlattr_u32(IFLA_MTU, 1500)

\* _parse_link_payload(payload) of get_links.py and of AddressNetlink
ParseProps ==
    /\ p_out.kind = "none"
    /\ \E props \in PropLists :
         \E payload \in {PropPayload(props)} :
           \E d \in {ParseLinkPayload(payload)} :
             /\ p_list' = props
             /\ p_payload' = payload
             /\ p_out' = [kind |-> d.kind,
                          value |-> IF d.kind = "record" THEN d.rec[2].altnames ELSE <<>>]
    /\ PropFrame

\* the record is taken
PropsTaken ==
    /\ p_out.kind # "none"
    /\ p_list' = NoProps
    /\ p_payload' = <<>>
    /\ p_out' = NoResult
    /\ PropFrame

NextProps ==
    \/ ParseProps
    \/ PropsTaken

SpecProps == Init /\ [][NextProps]_vars

----------------------------------------------------------------------------
(* Properties of altnames *)

\* the names of the ALT_IFNAME attributes of a list, in wire order
RECURSIVE NamesOf(_, _)
NamesOf(list, i) ==
    IF i > Len(list) THEN <<>>
    ELSE IF BitAnd(list[i].type, NlaTypeMask) = IFLA_ALT_IFNAME
    THEN <<DecodeReplace(list[i].name)>> \o NamesOf(list, i + 1)
    ELSE NamesOf(list, i + 1)

\* C26: the altnames of a decoded link hold one name for every ALT_IFNAME
\* attribute of the record's PROP_LIST, in wire order, repeated ones included;
\* attributes of other types in the list add nothing, and a record without
\* PROP_LIST has empty altnames.
C26_AltNames ==
    p_out.kind # "none" =>
        /\ p_out.kind = "record"
        /\ p_out.value = IF p_list.some THEN NamesOf(p_list.val, 1) ELSE <<>>

\* en0 twice around an attribute of another type: both occurrences are kept
C26_Witness ==
    /\ p_list = Some(<<[type |-> IFLA_ALT_IFNAME, name |-> Name_en0],
                       [type |-> IFLA_IFNAME, name |-> Name_en0],
                       [type |-> IFLA_ALT_IFNAME, name |-> Name_en0]>>)
    /\ p_out.kind = "record"
    /\ Len(p_out.value) = 2
    /\ p_out.value[1] = p_out.value[2]

----------------------------------------------------------------------------
(* The receive loops of the handles: AddressNetlink._recv_msgs and           *)
(* EthtoolNetlink._recv_msgs, beside recv_msgs of netlink/_core.py           *)

ReceiveLoops == {"address", "ethtool"}

\* the test of DUMP_INTR: AddressNetlink._recv_msgs has it, EthtoolNetlink's
\* loop has no such test
HandleDumpIntr(loop, nlmsg_flags) == loop = "address" /\ DumpIntrSet(nlmsg_flags)

\* the branch  if nlmsg_type == NLMsgType.ERROR  of the handles:
\* raise NetlinkError(f"Netlink error: {error}"), without error_code
HandleErrorOutcome(data, offset, next) ==
    IF offset + 20 <= Len(data)
    THEN LET error == UnpackI32(data, offset + 16) IN
         IF error < 0
         THEN IF ErrnoOf(error) = ENODEV
              THEN Outcome("raise", Exc("DeviceNotFound", NoErrno), NoMsg, next)
              ELSE IF ErrnoOf(error) = EOPNOTSUPP
              THEN Outcome("raise", Exc("OperationNotSupported", NoErrno), NoMsg, next)
              ELSE Outcome("raise", Exc("NetlinkError", NoErrno), NoMsg, next)
         ELSE Outcome("done", NoExc, NoMsg, next)
    ELSE Outcome("done", NoExc, NoMsg, next)

\* one turn of the inner loop of a handle's _recv_msgs
HandleRecvStep(loop, data, offset) ==
    IF ~(offset < Len(data)) \/ offset + 16 > Len(data)
    THEN Outcome("break", NoExc, NoMsg, offset)
    ELSE LET h == UnpackNlmsghdr(data, offset)
             next == NextOffset(offset, h.nlmsg_len)
         IN  IF h.nlmsg_len < 16
             THEN Outcome("break", NoExc, NoMsg, offset)
             ELSE IF HandleDumpIntr(loop, h.nlmsg_flags)
             THEN Outcome("raise", Exc("DumpInterrupted", NoErrno), NoMsg, next)
             ELSE IF h.nlmsg_type = NLMsgType_ERROR
             THEN HandleErrorOutcome(data, offset, next)
             ELSE IF h.nlmsg_type = NLMsgType_DONE
             THEN Outcome("done", NoExc, NoMsg, next)
             ELSE Outcome("data", NoExc,
                          <<h.nlmsg_type, MsgPayload(data, offset, h.nlmsg_len)>>,
                          next)

RECURSIVE HandleRecvInner(_, _, _, _, _)
HandleRecvInner(loop, data, offset, done, messages) ==
    CHOOSE r \in
        {IF o.kind = "break"
         THEN [raised |-> FALSE, exc |-> NoExc, done |-> done, messages |-> messages]
         ELSE IF o.kind = "raise"
         THEN [raised |-> TRUE, exc |-> o.exc, done |-> done, messages |-> messages]
         ELSE IF o.kind = "done" THEN HandleRecvInner(loop, data, o.next, TRUE, messages)
         ELSE HandleRecvInner(loop, data, o.next, done, Append(messages, o.msg))
            : o \in {HandleRecvStep(loop, data, offset)}} : TRUE

RECURSIVE HandleRecvOuter(_, _, _, _)
HandleRecvOuter(loop, queue, used, messages) ==
    IF used >= Len(queue)
    THEN [kind |-> "blocked", exc |-> NoExc, messages |-> <<>>, used |-> used]
    ELSE CHOOSE out \in
        {IF r.raised
         THEN [kind |-> "raised", exc |-> r.exc, messages |-> <<>>, used |-> used + 1]
         ELSE IF r.done
         THEN [kind |-> "returned", exc |-> NoExc, messages |-> r.messages,
               used |-> used + 1]
         ELSE HandleRecvOuter(loop, queue, used + 1, r.messages)
            : r \in {HandleRecvInner(loop, queue[used + 1], 0, FALSE, messages)}} : TRUE

\* self._recv_msgs() of a handle whose socket hands out the datagrams of queue
handle_recv_msgs(loop, queue) == HandleRecvOuter(loop, queue, 0, <<>>)

\* what the socket hands out: two messages in one read, or one in each of two
LoopReads ==
    {<<KernelFrames(<<m1, m2>>)>> : m1 \in RawMsgs, m2 \in RawMsgs}
    \cup {<<KernelFrame(m1), KernelFrame(m2)>> : m1 \in RawMsgs, m2 \in RawMsgs}
    \cup {<<ErrDatagram(EEXIST)>>}

\* the three loops are run on the same reads
RunLoops ==
    /\ w_out.kind = "none"
    /\ \E reads \in LoopReads :
         /\ w_reads' = reads
         /\ w_out' = [kind |-> "ran",
                      core |-> recv_msgs(reads),
                      address |-> handle_recv_msgs("address", reads),
                      ethtool |-> handle_recv_msgs("ethtool", reads)]
    /\ LoopFrame

\* the outcomes are taken
LoopsTaken ==
    /\ w_out.kind = "ran"
    /\ w_reads' = <<>>
    /\ w_out' = NoLoops
    /\ LoopFrame

NextLoops ==
    \/ RunLoops
    \/ LoopsTaken

SpecLoops == Init /\ [][NextLoops]_vars

----------------------------------------------------------------------------
(* Properties of the three receive loops *)

\* C28: fed the same reads, AddressNetlink._recv_msgs and
\* EthtoolNetlink._recv_msgs end as recv_msgs does: with the same list of
\* (type, payload) records, or with a fault of the same type and the same errno.
C28_LoopsEquivalent ==
    w_out.kind = "ran" =>
        /\ w_out.address = w_out.core
        /\ w_out.ethtool = w_out.core

\* the outcome without the errno of its exception
WithoutErrno(out) == [out EXCEPT !.exc.errno = NoErrno]

\* the loops agree on everything but the errno, and the loop of EthtoolNetlink
\* on the reads in which no message carries DUMP_INTR
LoopsAgreeButErrno ==
    w_out.kind = "ran" =>
        /\ w_out.address = WithoutErrno(w_out.core)
        /\ w_out.core.exc.type # "DumpInterrupted" => w_out.ethtool = WithoutErrno(w_out.core)

----------------------------------------------------------------------------
(* Every request of the library, the kernel's answer to it, and the receive  *)
(* loop that follows the send.  The kernel answers a dump with its records   *)
(* and DONE, a request with ACK with its reply (if any) and an ERROR message *)
(* whose code is 0, a failed request with an ERROR message; to a request     *)
(* with neither flag that succeeds it sends the reply only.                  *)

NLM_F_REPLACE == 256

\* how many records the kernel answers with at most
MaxRecords == 2

DumpQueries ==
    {"get_addresses", "get_link_addresses", "get_links", "get_routes", "get_link_routes",
     "get_rules", "AddressNetlink.get_links", "AddressNetlink.get_addresses",
     "AddressNetlink.get_link_addresses", "AddressNetlink.get_routes",
     "AddressNetlink.get_link_routes"}

AckQueries ==
    {"get_link", "AddressNetlink.get_link", "EthtoolNetlink._resolve_family",
     "EthtoolNetlink.get_link_modes", "EthtoolNetlink.get_link_info",
     "EthtoolNetlink.get_fec", "EthtoolNetlink.get_link_state",
     "EthtoolNetlink._query_string_set", "EthtoolNetlink.get_features"}

CreateExclMutations == {"_create_link", "add_address", "add_route", "add_rule"}

AckMutations ==
    {"_set_link_flags", "remove_address", "set_bond_primary", "bond_add_member",
     "bond_rem_member", "set_bond_mode", "set_bond_xmit_hash_policy", "set_lacpdu_rate",
     "bridge_add_member", "bridge_rem_member", "set_bridge_priority", "set_bridge_stp",
     "set_link_mtu", "delete_link", "delete_route", "delete_rule",
     "EthtoolNetlink.set_fec"}

Queries == DumpQueries \cup AckQueries \cup {"get_inet_diag"}

Verbs == Queries \cup CreateExclMutations \cup AckMutations \cup {"change_route"}

\* a request sent with the REQUEST flag alone
RequestFlags_RequestOnly(fn) == NLM_F_REQUEST

\* the flags each function passes to pack_nlmsg
RequestFlags(fn) ==
    IF fn \in DumpQueries THEN NLM_F_REQUEST + NLM_F_DUMP
    ELSE IF fn = "get_inet_diag" THEN NLM_F_REQUEST + NLM_F_ROOT + NLM_F_MATCH
    ELSE IF fn \in CreateExclMutations
    THEN NLM_F_REQUEST + NLM_F_ACK + NLM_F_CREATE + NLM_F_EXCL
    ELSE IF fn = "change_route"
    THEN NLM_F_REQUEST + NLM_F_ACK + NLM_F_CREATE + NLM_F_REPLACE
    ELSE NLM_F_REQUEST + NLM_F_ACK

\* the receive loop each function runs after the send
LoopOf(fn) ==
    IF fn \in {"AddressNetlink.get_links", "AddressNetlink.get_link",
               "AddressNetlink.get_addresses", "AddressNetlink.get_link_addresses",
               "AddressNetlink.get_routes", "AddressNetlink.get_link_routes"}
    THEN "address"
    ELSE IF fn \in {"EthtoolNetlink._resolve_family", "EthtoolNetlink.get_link_modes",
                    "EthtoolNetlink.get_link_info", "EthtoolNetlink.get_fec",
                    "EthtoolNetlink.get_link_state", "EthtoolNetlink._query_string_set",
                    "EthtoolNetlink.get_features", "EthtoolNetlink.set_fec"}
    THEN "ethtool"
    ELSE "core"

\* the kernel treats a query as a dump when ROOT or MATCH is set
IsDump(fn, flags) == fn \in Queries /\ BitAnd(flags, NLM_F_DUMP) # 0

WantsAck(flags) == BitAnd(flags, NLM_F_ACK) # 0

\* sock.send(msg)
SendRequest ==
    /\ y_pc = "idle"
    /\ \E fn \in Verbs :
         /\ y_fn' = fn
         /\ y_flags' = RequestFlags(fn)
    /\ y_pc' = "sent"
    /\ y_kernel' = "answering"
    /\ y_records' = 0
    /\ y_queue' = <<>>
    /\ y_messages' = <<>>
    /\ y_out' = NoExc
    /\ RequestFrame

\* the kernel queues one record of its answer to a query
KernelRecord ==
    /\ y_kernel = "answering"
    /\ y_fn \in Queries
    /\ y_records < (IF IsDump(y_fn, y_flags) THEN MaxRecords ELSE 1)
    /\ y_records' = y_records + 1
    /\ y_queue' = Append(y_queue,
                         KernelFrame(KMsg(16, IF IsDump(y_fn, y_flags) THEN MULTI ELSE 0,
                                          <<1, 2, 3, 4>>)))
    /\ UNCHANGED <<y_pc, y_fn, y_flags, y_kernel, y_messages, y_out>>
    /\ RequestFrame

\* the kernel ends its answer: DONE after a dump, the acknowledgement when ACK
\* was asked for, nothing otherwise; or the error that refuses the request
KernelEnds ==
    /\ y_kernel = "answering"
    /\ y_kernel' = "finished"
    /\ \/ y_queue' = IF IsDump(y_fn, y_flags) THEN Append(y_queue, KernelFrame(Done_))
                     ELSE IF WantsAck(y_flags) THEN Append(y_queue, AckDatagram)
                     ELSE y_queue
       \/ /\ y_records = 0
          /\ \E code \in {ENODEV, EOPNOTSUPP, EEXIST} :
               y_queue' = Append(y_queue, ErrDatagram(code))
    /\ UNCHANGED <<y_pc, y_fn, y_flags, y_records, y_messages, y_out>>
    /\ RequestFrame

\* one sock.recv of the receive loop and the inner loop over what it read;
\* recv blocks while nothing is queued
Receive ==
    /\ y_pc = "sent"
    /\ y_queue # <<>>
    /\ y_queue' = Tail(y_queue)
    /\ \E r \in {IF LoopOf(y_fn) = "core"
                 THEN RecvInner(Head(y_queue), 0, FALSE, y_messages)
                 ELSE HandleRecvInner(LoopOf(y_fn), Head(y_queue), 0, FALSE, y_messages)} :
         IF r.raised
         THEN y_pc' = "raised" /\ y_out' = r.exc /\ y_messages' = <<>>
         ELSE /\ y_pc' = IF r.done THEN "returned" ELSE "sent"
              /\ y_messages' = r.messages
              /\ UNCHANGED y_out
    /\ UNCHANGED <<y_fn, y_flags, y_kernel, y_records>>
    /\ RequestFrame

\* the caller has its result; the socket is closed
RequestOver ==
    /\ y_pc \in {"returned", "raised"}
    /\ y_kernel = "finished"
    /\ y_pc' = "idle"
    /\ y_fn' = "none"
    /\ y_flags' = 0
    /\ y_kernel' = "idle"
    /\ y_records' = 0
    /\ y_queue' = <<>>
    /\ y_messages' = <<>>
    /\ y_out' = NoExc
    /\ RequestFrame

NextRequest ==
    \/ SendRequest
    \/ KernelRecord
    \/ KernelEnds
    \/ Receive
    \/ RequestOver

\* the kernel ends every answer and a recv that has something to read returns
SpecRequest ==
    Init /\ [][NextRequest]_vars /\ WF_vars(KernelEnds) /\ WF_vars(Receive)

----------------------------------------------------------------------------
(* Properties of the requests *)

\* C27: every request sent has REQUEST and at least one of ACK and DUMP
\* (ROOT|MATCH), and once a request is sent the receive loop that follows it
\* returns or raises.
C27_RequestsTerminate ==
    /\ [](y_pc # "idle" =>
            /\ BitAnd(y_flags, NLM_F_REQUEST) # 0
            /\ WantsAck(y_flags) \/ BitAnd(y_flags, NLM_F_DUMP) = NLM_F_DUMP)
    /\ (y_pc = "sent") ~> (y_pc \in {"returned", "raised"})

\* a dump of two records, each read on its own, ended by DONE
C27_Witness ==
    /\ y_fn = "get_links"
    /\ y_flags = NLM_F_REQUEST + NLM_F_DUMP
    /\ y_pc = "returned"
    /\ Len(y_messages) = MaxRecords
    /\ y_kernel = "finished"
    /\ y_queue = <<>>

====
